---- MODULE Spec2Model ----
(***************************************************************************)
(* A model of the opencode-openmemory plugin: the REST adapter             *)
(* (services/client.ts), the context formatter (services/context.ts), the  *)
(* chat.message hook and the openmemory tool (index.ts).                   *)
(*                                                                         *)
(* Numbers in 0..1 (score, salience) are kept in thousandths, times in     *)
(* milliseconds.  An optional field of a JavaScript object is a record     *)
(* field that may be missing from the record's domain.                     *)
(***************************************************************************)
EXTENDS Integers, Sequences, FiniteSets, TLC

VARIABLES
    CONFIG,            \* config.ts: the resolved configuration
    now,               \* wall clock, ms since the start of the run
    restPc,            \* REST call: "idle", "fetch", "body" or "done"
    restOp,            \* REST call: the method called and its arguments
    restRequest,       \* REST call: the HTTP request handed to fetch
    restStart,         \* REST call: the clock when withTimeout armed its timer
    restStatus,        \* REST call: the status of the response headers
    restResp,          \* REST call: what the transport did (thrown error, status, body)
    restResult,        \* REST call: what the method returned to its caller
    toolPc,            \* openmemory tool: "idle", "await" or "done"
    toolArgs,          \* openmemory tool: the arguments of the running execute
    toolCalls,         \* openmemory tool: the client calls execute has issued
    toolResults,       \* openmemory tool: what those calls resolved with
    toolReturn,        \* openmemory tool: the JSON envelope execute returned
    clientInstance,    \* client.ts: the memoized client, "null" before the first use
    constructed,       \* how many times the constructor of OpenMemoryRESTClient has run
    caller,            \* the tool-call dispatcher handed over with setCaller, or "null"
    opLog,             \* the operations issued through openMemoryClient, in order
    injectedSessions,  \* index.ts: the sessions whose first turn has been seen
    chatAwaiting,      \* chat.message handlers suspended at their Promise.all
    chatReturned,      \* the chat.message handler that has just returned, if any
    retrievals,        \* per session: fan-outs issued since the plugin started
    injections,        \* per session: context parts prepended since the plugin started
    restarts,          \* how often the host process has been restarted
    injectedBefore,    \* sessions that got a context part before the last restart
    fmtPc,             \* context block: "idle", "ready" (arguments at hand) or "done"
    fmtRetrieval,      \* context block: what the transport did for getProfile, if called
    fmtArgs,           \* context block: the arguments of formatContextForPrompt
    fmtText,           \* context block: the lines formatContextForPrompt returned
    fmtParts,          \* context block: output.parts after the block was handled
    scopeIds,          \* the backend-visible identifiers composed for two scopes
    factStore,         \* the backend's temporal facts, in the order they were stored
    factOp,            \* temporal facts: the client method called last and its input
    factResult,        \* temporal facts: what that call returned
    factCreated,       \* temporal facts: what createTemporalFact was asked and answered
    identityEnv,       \* tags.ts: what git config and process.env hold
    scopeCalls         \* tags.ts: the last two calls of getScopes, oldest first

restVars == <<restPc, restOp, restRequest, restStart, restStatus, restResp, restResult>>
toolVars == <<toolPc, toolArgs, toolCalls, toolResults, toolReturn>>
clientVars == <<clientInstance, constructed, caller, opLog>>
chatVars == <<injectedSessions, chatAwaiting, chatReturned, retrievals, injections,
              restarts, injectedBefore>>
fmtVars == <<fmtPc, fmtRetrieval, fmtArgs, fmtText, fmtParts>>
factVars == <<factStore, factOp, factResult, factCreated>>
identVars == <<identityEnv, scopeCalls>>
vars == <<CONFIG, now, restVars, toolVars, clientVars, chatVars, fmtVars, scopeIds, factVars, identVars>>
nonRestVars == <<toolVars, clientVars, chatVars, fmtVars, scopeIds, factVars, identVars>>
nonToolVars == <<restVars, clientVars, chatVars, fmtVars, scopeIds, factVars, identVars>>
nonClientVars == <<restVars, toolVars, chatVars, fmtVars, scopeIds, factVars, identVars>>
nonChatVars == <<restVars, toolVars, clientVars, fmtVars, scopeIds, factVars, identVars>>
nonFmtVars == <<restVars, toolVars, clientVars, chatVars, scopeIds, factVars, identVars>>
nonScopeVars == <<restVars, toolVars, clientVars, chatVars, fmtVars, factVars, identVars>>
nonFactVars == <<restVars, toolVars, clientVars, chatVars, fmtVars, scopeIds, identVars>>
nonIdentVars == <<restVars, toolVars, clientVars, chatVars, fmtVars, scopeIds, factVars>>

----------------------------------------------------------------------------
(* Bounds of the model *)

\* longest list of matches or items a backend response carries
MaxMatches == 2
\* clock ticks per timeout period
TicksPerTimeout == 3
\* clock ticks the run lasts
MaxTicks == 5
\* largest configured maxProfileItems
MaxCap == 2
\* longest list of matches one search of the openmemory tool gets back
MaxSearchHits == 6
\* operations issued through openMemoryClient in one run
MaxOps == 2
\* chat.message handlers suspended at the same time
MaxHandlers == 2
\* restarts of the host process in one run
MaxRestarts == 1

----------------------------------------------------------------------------
(* Program constants *)

TIMEOUT_MS == 30000
DEFAULT_maxMemories == 5
DEFAULT_maxProjectMemories == 10
DEFAULT_maxProfileItems == 5

ScoreScale == 10 * 100
DayMs == 24 * 60 * 60 * 1000
TickMs == TIMEOUT_MS \div TicksPerTimeout
\* Date.now() when the run starts, so that ages of several days exist
Epoch == 10 * DayMs
DateNow == Epoch + now

----------------------------------------------------------------------------
(* JavaScript values *)

Has(r, f) == f \in DOMAIN r
NoFields == [f \in {} |-> 0]
Opt(r, f, g) == IF Has(r, f) THEN (g :> r[f]) ELSE NoFields
Null == [type |-> "null"]
IsNull(d) == d.type = "null"

SeqsUpTo(S, n) == UNION {[1..k -> S] : k \in 0..n}
Take(s, n) == SubSeq(s, 1, IF n < Len(s) THEN n ELSE Len(s))
MapSeq(s, F(_)) == [i \in 1..Len(s) |-> F(s[i])]
Filter(s, P(_)) == SelectSeq(s, P)

\* Math.round(x * 100) for x in thousandths
RoundPct(x) == (x * 100 + ScoreScale \div 2) \div ScoreScale

\* new Date(seconds * 1000).toISOString(), and new Date(iso).getTime()
toISOString(ms) == <<"ISO", ms \div DayMs, ms % DayMs>>
getTime(iso) == iso[2] * DayMs + iso[3]

\* A string that may carry private spans: its spans in order
PublicSpan == [private |-> FALSE, text |-> "uses pnpm"]
BlankSpan == [private |-> FALSE, text |-> " "]
PrivateSpan == [private |-> TRUE, text |-> "token abc"]

----------------------------------------------------------------------------
(* Scopes: services/tags.ts *)

\* sha256(...).digest("hex").slice(0, 16): ids are 16 hex digits; the hash of
\* a directory may be the hash of an e-mail address
UserIds == {"00000000000000a1", "a100000000000000", "00000000000000b2"}
ProjectIds == {"00000000000000a1", "0000000000a10000", "c300000000000000"}
userScope == [userId |-> "00000000000000a1"]
projectScope == [userId |-> "00000000000000a1", projectId |-> "c300000000000000"]
Scopes == {userScope, projectScope}
\* every scope getScopes can return, for some user and some directory
AllScopes ==
    {[userId |-> u] : u \in UserIds}
    \cup {[userId |-> u, projectId |-> q] : u \in UserIds, q \in ProjectIds}

\* getScopeUserId, were the project left out of the identifier
getScopeUserIdOfUser(scope) == CONFIG.scopePrefix \o ":" \o scope.userId

getScopeUserId(scope) ==
    IF Has(scope, "projectId") /\ scope.projectId # ""
    THEN CONFIG.scopePrefix \o ":" \o scope.userId \o ":" \o scope.projectId
    ELSE CONFIG.scopePrefix \o ":" \o scope.userId

----------------------------------------------------------------------------
(* What the backend can answer *)

OldCreated == (Epoch - 8 * DayMs) \div 1000
RecentCreated == (Epoch - 1 * DayMs) \div 1000

\* /memory/query matches (OpenMemoryQueryResponse), with the creation time
\* the backend keeps for each memory
QueryMatches ==
    { [id |-> "m1", content |-> "likes tabs", score |-> 950, salience |-> 400,
       primary_sector |-> "episodic", created_at |-> OldCreated],
      [id |-> "m2", content |-> "uses pnpm", score |-> 0, created_at |-> RecentCreated],
      [id |-> "m3", content |-> "runs lint", salience |-> 824],
      [id |-> "m4", content |-> "terse"] }

\* /memory/all items (OpenMemoryListResponse)
ListItems ==
    { [id |-> "i1", content |-> "monorepo", salience |-> 824, primary_sector |-> "procedural",
       tags |-> <<"build">>, metadata |-> [type |-> "architecture"],
       created_at |-> OldCreated, updated_at |-> RecentCreated],
      [id |-> "i2", content |-> "node 20", salience |-> 0, created_at |-> 0],
      [id |-> "i3", content |-> "ci on push"] }

Fact1 == [id |-> "f1", subject |-> "repo", predicate |-> "uses", object |-> "pnpm",
          valid_from |-> "t1", confidence |-> ScoreScale]

MemoryMethods == {"searchMemories", "addMemory", "listMemories", "deleteMemory",
                  "reinforceMemory", "getProfile"}
TemporalMethods == {"createTemporalFact", "queryTemporalFacts", "getCurrentFact",
                    "getTimeline", "invalidateFact", "getTemporalStats", "compareFacts"}
Methods == MemoryMethods \cup TemporalMethods

\* The JSON bodies a 2xx response to each method can carry: the documented
\* shape, an object without the expected fields, and null.
JsonBodies(method) ==
    {Null, [type |-> "object"]} \cup
    CASE method \in {"searchMemories", "getProfile"} ->
            {[type |-> "object", matches |-> ms] : ms \in SeqsUpTo(QueryMatches, MaxMatches)}
      [] method = "listMemories" ->
            {[type |-> "object", items |-> is] : is \in SeqsUpTo(ListItems, MaxMatches)}
      [] method = "addMemory" ->
            {[type |-> "object", id |-> "m9"],
             [type |-> "object", id |-> "m9", primary_sector |-> "semantic"]}
      [] method = "createTemporalFact" -> {[type |-> "object"] @@ Fact1}
      [] method = "queryTemporalFacts" ->
            {[type |-> "object", facts |-> <<Fact1>>, count |-> 1]}
      [] method = "getCurrentFact" -> {[type |-> "object", fact |-> Fact1]}
      [] method = "getTimeline" ->
            {[type |-> "object", subject |-> "repo", timeline |-> <<Fact1>>, count |-> 1]}
      [] method = "invalidateFact" -> {[type |-> "object", id |-> "f1", valid_to |-> "t2"]}
      [] method = "getTemporalStats" ->
            {[type |-> "object", active_facts |-> 1, historical_facts |-> 0, total_facts |-> 1]}
      [] method = "compareFacts" ->
            {[type |-> "object", subject |-> "repo", time1 |-> "t1", time2 |-> "t2",
              added |-> <<Fact1>>, removed |-> <<>>, changed |-> <<>>, unchanged |-> <<>>]}
      [] OTHER -> {}

OkStatus == 200
ErrorStatuses == {404, 500}
ErrorTexts == {"boom", ""}
IsOk(status) == status \in 200..299

\* Messages of the errors thrown inside a method's try block
FetchFailedMessage == "fetch failed"
TimeoutMessage == "Timeout after " \o ToString(TIMEOUT_MS) \o "ms"
SyntaxErrorMessage == "Unexpected token < in JSON at position 0"
TypeErrorMessage == "Cannot read properties of null"
BodyAbortedMessage == "terminated"

\* What the transport did for one call, as the method sees it
Thrown(message) == [kind |-> "throw", message |-> message]
HttpFailure(status, text) == [kind |-> "http", status |-> status, text |-> text]
JsonBody(data) == [kind |-> "json", status |-> OkStatus, data |-> data]
NoBody == [kind |-> "empty", status |-> OkStatus]
Pending == [kind |-> "pending"]

Responses(method) ==
    {Thrown(m) : m \in {FetchFailedMessage, TimeoutMessage, SyntaxErrorMessage, BodyAbortedMessage}}
    \cup {HttpFailure(s, t) : s \in ErrorStatuses, t \in ErrorTexts}
    \cup (IF method \in {"deleteMemory", "reinforceMemory"}
          THEN {NoBody} ELSE {JsonBody(d) : d \in JsonBodies(method)})

----------------------------------------------------------------------------
(* OpenMemoryRESTClient: what each method returns for what the transport did *)

HttpError(status, text) == "HTTP " \o ToString(status) \o ": " \o text
Pick(data, fields) == [f \in (fields \cap DOMAIN data) |-> data[f]]

\* failure, were the error rethrown instead of being turned into an envelope
failureRethrows(method, input, errorMessage) == [thrown |-> errorMessage]

\* the failure envelope of the catch block and of the !response.ok branch
failure(method, input, errorMessage) ==
    CASE method = "searchMemories" ->
            [success |-> FALSE, results |-> <<>>, total |-> 0, error |-> errorMessage]
      [] method = "listMemories" ->
            [success |-> FALSE, memories |-> <<>>, error |-> errorMessage]
      [] method = "queryTemporalFacts" ->
            [success |-> FALSE, facts |-> <<>>, count |-> 0, error |-> errorMessage]
      [] method = "getTimeline" ->
            [success |-> FALSE, subject |-> input.subject, timeline |-> <<>>, count |-> 0,
             error |-> errorMessage]
      [] method = "compareFacts" ->
            [success |-> FALSE, added |-> <<>>, removed |-> <<>>, changed |-> <<>>,
             unchanged |-> <<>>, error |-> errorMessage]
      [] OTHER -> [success |-> FALSE, error |-> errorMessage]

\* searchMemories: a match of the response to a MemoryItem
matchToMemoryItem(m) ==
    [id |-> m.id, content |-> m.content,
     score |-> IF Has(m, "score") THEN m.score
               ELSE IF Has(m, "salience") THEN m.salience ELSE ScoreScale]
    @@ Opt(m, "salience", "salience") @@ Opt(m, "primary_sector", "sector")

\* listMemories: an item of the response to a MemoryItem
itemToMemoryItem(m) ==
    [id |-> m.id, content |-> m.content]
    @@ Opt(m, "salience", "salience") @@ Opt(m, "primary_sector", "sector")
    @@ Opt(m, "tags", "tags") @@ Opt(m, "metadata", "metadata")
    @@ (IF Has(m, "created_at") /\ m.created_at # 0
        THEN [createdAt |-> toISOString(m.created_at * 1000)] ELSE NoFields)
    @@ (IF Has(m, "updated_at") /\ m.updated_at # 0
        THEN [updatedAt |-> toISOString(m.updated_at * 1000)] ELSE NoFields)

\* the body of a method's try block once response.json() has resolved
success(method, data) ==
    CASE method = "searchMemories" ->
            LET memories == MapSeq(IF Has(data, "matches") THEN data.matches ELSE <<>>,
                                   matchToMemoryItem)
            IN  [success |-> TRUE, results |-> memories, total |-> Len(memories)]
      [] method = "listMemories" ->
            LET memories == MapSeq(IF Has(data, "items") THEN data.items ELSE <<>>,
                                   itemToMemoryItem)
            IN  [success |-> TRUE, memories |-> memories, total |-> Len(memories)]
      [] method = "addMemory" ->
            [success |-> TRUE] @@ Opt(data, "id", "id") @@ Opt(data, "primary_sector", "sector")
      [] method = "createTemporalFact" ->
            [success |-> TRUE] @@ Pick(data, {"id", "subject", "predicate", "object",
                                              "valid_from", "confidence"})
      [] method = "queryTemporalFacts" -> [success |-> TRUE] @@ Pick(data, {"facts", "count"})
      [] method = "getCurrentFact" -> [success |-> TRUE] @@ Pick(data, {"fact"})
      [] method = "getTimeline" ->
            [success |-> TRUE] @@ Pick(data, {"subject", "predicate", "timeline", "count"})
      [] method = "invalidateFact" -> [success |-> TRUE] @@ Pick(data, {"id", "valid_to"})
      [] method = "getTemporalStats" ->
            [success |-> TRUE] @@ Pick(data, {"active_facts", "historical_facts", "total_facts"})
      [] method = "compareFacts" ->
            [success |-> TRUE] @@ Pick(data, {"subject", "time1", "time2", "added", "removed",
                                              "changed", "unchanged"})
      [] OTHER -> [success |-> TRUE]

\* request, were a 404 answered like every other non-2xx status
requestFailsOnNotFound(method, input, resp) ==
    CASE resp.kind = "throw" -> failure(method, input, resp.message)
      [] resp.kind = "http" -> failure(method, input, HttpError(resp.status, resp.text))
      [] resp.kind = "empty" -> [success |-> TRUE]
      [] resp.kind = "json" ->
            IF IsNull(resp.data)
            THEN failure(method, input, TypeErrorMessage)
            ELSE success(method, resp.data)

\* request, were the unchanged facts left out of what compareFacts returns
requestDropsUnchanged(method, input, resp) ==
    CASE resp.kind = "throw" -> failure(method, input, resp.message)
      [] resp.kind = "http" ->
            IF method = "getCurrentFact" /\ resp.status = 404
            THEN [success |-> TRUE]
            ELSE failure(method, input, HttpError(resp.status, resp.text))
      [] resp.kind = "empty" -> [success |-> TRUE]
      [] resp.kind = "json" ->
            IF IsNull(resp.data)
            THEN failure(method, input, TypeErrorMessage)
            ELSE IF method = "compareFacts"
            THEN Pick(success(method, resp.data),
                      {"success", "subject", "time1", "time2", "added", "removed", "changed"})
            ELSE success(method, resp.data)

\* a method that issues one request: its return value for what the transport did
request(method, input, resp) ==
    CASE resp.kind = "throw" -> failure(method, input, resp.message)
      [] resp.kind = "http" ->
            IF method = "getCurrentFact" /\ resp.status = 404
            THEN [success |-> TRUE]
            ELSE failure(method, input, HttpError(resp.status, resp.text))
      [] resp.kind = "empty" -> [success |-> TRUE]
      [] resp.kind = "json" ->
            IF IsNull(resp.data)
            THEN failure(method, input, TypeErrorMessage)
            ELSE success(method, resp.data)

searchMemories(input, resp) == request("searchMemories", input, resp)

\* getProfile: the searchMemories call it makes
DefaultProfileQuery == "preferences style workflow"

\* the retrieval of getProfile, were it made in the scope getProfile was given
profileSearchInputKeepsScope(input) ==
    [query |-> IF Has(input, "query") /\ input.query # "" THEN input.query
               ELSE DefaultProfileQuery,
     scope |-> input.scope,
     limit |-> CONFIG.maxProfileItems * 2]

profileSearchInput(input) ==
    [query |-> IF Has(input, "query") /\ input.query # "" THEN input.query
               ELSE DefaultProfileQuery,
     scope |-> [userId |-> input.scope.userId],
     limit |-> CONFIG.maxProfileItems * 2]

\* getProfile, were the two lists left as long as the retrieval made them
getProfileUncapped(input, resp) ==
    LET result == searchMemories(profileSearchInput(input), resp)
        oneWeekAgo == DateNow - 7 * DayMs
        isStatic(m) == Has(m, "createdAt") /\ getTime(m.createdAt) < oneWeekAgo
        isDynamic(m) == ~Has(m, "createdAt") \/ getTime(m.createdAt) >= oneWeekAgo
        content(m) == m.content
    IN  IF ~result.success
        THEN [success |-> FALSE, error |-> result.error]
        ELSE [success |-> TRUE,
              profile |-> [static |-> MapSeq(Filter(result.results, isStatic), content),
                           dynamic |-> MapSeq(Filter(result.results, isDynamic), content)]]

\* getProfile, were a failed retrieval answered with an empty profile
getProfileHidesFailure(input, resp) ==
    LET result == searchMemories(profileSearchInput(input), resp)
        content(m) == m.content
    IN  [success |-> TRUE,
         profile |-> [static |-> <<>>,
                      dynamic |-> MapSeq(Take(result.results, CONFIG.maxProfileItems), content)]]

\* getProfile, from the result of its searchMemories call
getProfile(input, resp) ==
    LET result == searchMemories(profileSearchInput(input), resp)
        oneWeekAgo == DateNow - 7 * DayMs
        isStatic(m) == Has(m, "createdAt") /\ getTime(m.createdAt) < oneWeekAgo
        isDynamic(m) == ~Has(m, "createdAt") \/ getTime(m.createdAt) >= oneWeekAgo
        content(m) == m.content
        staticFacts == MapSeq(Take(Filter(result.results, isStatic), CONFIG.maxProfileItems),
                              content)
        dynamicFacts == MapSeq(Take(Filter(result.results, isDynamic), CONFIG.maxProfileItems),
                               content)
    IN  IF ~result.success
        THEN [success |-> FALSE, error |-> result.error]
        ELSE [success |-> TRUE, profile |-> [static |-> staticFacts, dynamic |-> dynamicFacts]]

\* what the called method returns
return(method, input, resp) ==
    IF method = "getProfile" THEN getProfile(input, resp) ELSE request(method, input, resp)

----------------------------------------------------------------------------
(* One call of a REST client method, step by step *)

Queries == {"", "deploy steps"}
Limits == {1, 3}
WithLimit(r) == {r} \cup {r @@ [limit |-> l] : l \in Limits}

Inputs(method) ==
    CASE method = "searchMemories" ->
            UNION {WithLimit([query |-> "deploy steps", scope |-> sc]) : sc \in Scopes}
      [] method = "getProfile" ->
            {[scope |-> sc] : sc \in Scopes}
            \cup {[scope |-> sc, query |-> q] : sc \in Scopes, q \in Queries}
      [] method = "listMemories" -> UNION {WithLimit([scope |-> sc]) : sc \in Scopes}
      [] method = "addMemory" -> {[content |-> <<PublicSpan>>, scope |-> sc] : sc \in Scopes}
      [] method = "deleteMemory" -> {[memoryId |-> "m1", scope |-> sc] : sc \in Scopes}
      [] method = "reinforceMemory" -> {[memoryId |-> "m1"]}
      [] method = "createTemporalFact" ->
            {[subject |-> "repo", predicate |-> "uses", object |-> "pnpm"]}
      [] method = "invalidateFact" -> {[id |-> "f1"]}
      [] method = "getTemporalStats" -> {NoFields}
      [] method = "compareFacts" -> {[subject |-> "repo", time1 |-> "t1", time2 |-> "t2"]}
      [] OTHER -> {[subject |-> "repo", predicate |-> "uses"]}

\* httpRequest, were the object of a new fact sent under the name of its predicate
httpRequestMisnamesObject(method, input) ==
    CASE method = "searchMemories" ->
            [verb |-> "POST", path |-> "/memory/query", query |-> input.query,
             k |-> IF Has(input, "limit") THEN input.limit ELSE CONFIG.maxMemories,
             user_id |-> getScopeUserId(input.scope)]
      [] method = "addMemory" ->
            [verb |-> "POST", path |-> "/memory/add", content |-> input.content,
             user_id |-> getScopeUserId(input.scope)]
      [] method = "listMemories" ->
            [verb |-> "GET", path |-> "/memory/all",
             l |-> IF Has(input, "limit") THEN input.limit ELSE CONFIG.maxProjectMemories,
             user_id |-> getScopeUserId(input.scope)]
      [] method = "deleteMemory" ->
            [verb |-> "DELETE", path |-> "/memory/" \o input.memoryId,
             user_id |-> getScopeUserId(input.scope)]
      [] method = "reinforceMemory" ->
            [verb |-> "POST", path |-> "/memory/reinforce", id |-> input.memoryId]
      [] method = "createTemporalFact" ->
            [verb |-> "POST", path |-> "/api/temporal/fact",
             body |-> [subject |-> input.subject, predicate |-> input.object,
                       object |-> input.object]
                      @@ Opt(input, "validFrom", "valid_from")
                      @@ Opt(input, "confidence", "confidence")
                      @@ Opt(input, "metadata", "metadata")]
      [] method = "queryTemporalFacts" -> [verb |-> "GET", path |-> "/api/temporal/fact"]
      [] method = "getCurrentFact" -> [verb |-> "GET", path |-> "/api/temporal/fact/current"]
      [] method = "getTimeline" -> [verb |-> "GET", path |-> "/api/temporal/timeline"]
      [] method = "invalidateFact" ->
            [verb |-> "DELETE", path |-> "/api/temporal/fact/" \o input.id,
             body |-> Opt(input, "validTo", "valid_to")]
      [] method = "getTemporalStats" -> [verb |-> "GET", path |-> "/api/temporal/stats"]
      [] method = "compareFacts" ->
            [verb |-> "GET", path |-> "/api/temporal/compare",
             params |-> [subject |-> input.subject, time1 |-> input.time1,
                         time2 |-> input.time2]]

\* the request a method hands to this.fetch
httpRequest(method, input) ==
    CASE method = "searchMemories" ->
            [verb |-> "POST", path |-> "/memory/query", query |-> input.query,
             k |-> IF Has(input, "limit") THEN input.limit ELSE CONFIG.maxMemories,
             user_id |-> getScopeUserId(input.scope)]
      [] method = "addMemory" ->
            [verb |-> "POST", path |-> "/memory/add", content |-> input.content,
             user_id |-> getScopeUserId(input.scope)]
      [] method = "listMemories" ->
            [verb |-> "GET", path |-> "/memory/all",
             l |-> IF Has(input, "limit") THEN input.limit ELSE CONFIG.maxProjectMemories,
             user_id |-> getScopeUserId(input.scope)]
      [] method = "deleteMemory" ->
            [verb |-> "DELETE", path |-> "/memory/" \o input.memoryId,
             user_id |-> getScopeUserId(input.scope)]
      [] method = "reinforceMemory" ->
            [verb |-> "POST", path |-> "/memory/reinforce", id |-> input.memoryId]
      [] method = "createTemporalFact" ->
            [verb |-> "POST", path |-> "/api/temporal/fact",
             body |-> [subject |-> input.subject, predicate |-> input.predicate,
                       object |-> input.object]
                      @@ Opt(input, "validFrom", "valid_from")
                      @@ Opt(input, "confidence", "confidence")
                      @@ Opt(input, "metadata", "metadata")]
      [] method = "queryTemporalFacts" -> [verb |-> "GET", path |-> "/api/temporal/fact"]
      [] method = "getCurrentFact" -> [verb |-> "GET", path |-> "/api/temporal/fact/current"]
      [] method = "getTimeline" -> [verb |-> "GET", path |-> "/api/temporal/timeline"]
      [] method = "invalidateFact" ->
            [verb |-> "DELETE", path |-> "/api/temporal/fact/" \o input.id,
             body |-> Opt(input, "validTo", "valid_to")]
      [] method = "getTemporalStats" -> [verb |-> "GET", path |-> "/api/temporal/stats"]
      [] method = "compareFacts" ->
            [verb |-> "GET", path |-> "/api/temporal/compare",
             params |-> [subject |-> input.subject, time1 |-> input.time1,
                         time2 |-> input.time2]]

\* the request behind a method call: getProfile goes through searchMemories
requestOf(method, input) ==
    IF method = "getProfile"
    THEN httpRequest("searchMemories", profileSearchInput(input))
    ELSE httpRequest(method, input)

NoOp == [method |-> "none"]
NoArgs == [mode |-> "none"]
NoRequest == [path |-> "none"]
NoResult == [kind |-> "none"]

\* withTimeout: the timer armed beside the fetch promise is due
withTimeout(start, ms) == now - start >= ms

\* the method returns: its async function resolves with this value
Resolve(resp) ==
    /\ restPc' = "done"
    /\ restResp' = resp
    /\ restResult' = return(restOp.method, restOp.input, resp)
    /\ UNCHANGED <<CONFIG, now, restOp, restRequest, restStart, restStatus, nonRestVars>>

\* a method is called; it runs up to its await of this.fetch
Call(method, input) ==
    /\ restPc = "idle"
    /\ restPc' = "fetch"
    /\ restOp' = [method |-> method, input |-> input]
    /\ restRequest' = requestOf(method, input)
    /\ restStart' = now
    /\ restStatus' = 0
    /\ restResp' = Pending
    /\ restResult' = NoResult
    /\ UNCHANGED <<CONFIG, now, nonRestVars>>

\* the response headers arrive before the timer: fetch resolves, and the method
\* runs up to its next await (response.text() or response.json()) or to its return
FetchResolves(status) ==
    /\ restPc = "fetch"
    /\ IF IsOk(status) /\ restOp.method \in {"deleteMemory", "reinforceMemory"}
       THEN Resolve(NoBody)
       ELSE IF status = 404 /\ restOp.method = "getCurrentFact"
       THEN Resolve(HttpFailure(status, ""))
       ELSE /\ restPc' = "body"
            /\ restStatus' = status
            /\ UNCHANGED <<CONFIG, now, restOp, restRequest, restStart, restResp, restResult,
                           nonRestVars>>

\* the connection fails: fetch rejects, the catch block returns
FetchRejects ==
    /\ restPc = "fetch"
    /\ Resolve(Thrown(FetchFailedMessage))

\* the timer of withTimeout fires first: the race rejects, the catch block returns
TimeoutFires ==
    /\ restPc = "fetch"
    /\ withTimeout(restStart, TIMEOUT_MS)
    /\ Resolve(Thrown(TimeoutMessage))

\* response.text() of a non-2xx response resolves
BodyText(text) ==
    /\ restPc = "body"
    /\ ~IsOk(restStatus)
    /\ Resolve(HttpFailure(restStatus, text))

\* response.json() of a 2xx response resolves
BodyJson(data) ==
    /\ restPc = "body"
    /\ IsOk(restStatus)
    /\ Resolve(JsonBody(data))

\* the body cannot be read or parsed: response.text() or response.json() rejects
BodyRejects ==
    /\ restPc = "body"
    /\ Resolve(Thrown(IF IsOk(restStatus) THEN SyntaxErrorMessage ELSE BodyAbortedMessage))

\* the caller takes the result
Return ==
    /\ restPc = "done"
    /\ restPc' = "idle"
    /\ restOp' = NoOp
    /\ restRequest' = NoRequest
    /\ restResp' = Pending
    /\ restResult' = NoResult
    /\ restStatus' = 0
    /\ UNCHANGED <<CONFIG, now, restStart, nonRestVars>>

\* time passes; a due timer fires before more time passes
Tick ==
    /\ now < MaxTicks * TickMs
    /\ ~(restPc = "fetch" /\ withTimeout(restStart, TIMEOUT_MS))
    /\ now' = now + TickMs
    /\ UNCHANGED <<CONFIG, restVars, nonRestVars>>

RestIdle ==
    /\ restPc = "idle"
    /\ restOp = NoOp
    /\ restRequest = NoRequest
    /\ restStart = 0
    /\ restStatus = 0
    /\ restResp = Pending
    /\ restResult = NoResult

ToolIdle ==
    /\ toolPc = "idle"
    /\ toolArgs = NoArgs
    /\ toolCalls = <<>>
    /\ toolResults = <<>>
    /\ toolReturn = NoResult

ClientIdle ==
    /\ clientInstance = "null"
    /\ constructed = 0
    /\ caller = "null"
    /\ opLog = <<>>

Sessions == {"s1", "s2"}
NoFrame == [sessionID |-> "none"]

ChatIdle ==
    /\ injectedSessions = {}
    /\ chatAwaiting = <<>>
    /\ chatReturned = NoFrame
    /\ retrievals = [s \in Sessions |-> 0]
    /\ injections = [s \in Sessions |-> 0]
    /\ restarts = 0
    /\ injectedBefore = {}

FormatIdle ==
    /\ fmtPc = "idle"
    /\ fmtRetrieval = Pending
    /\ fmtArgs = NoArgs
    /\ fmtText = <<>>
    /\ fmtParts = <<>>

ScopeIdle == scopeIds = <<>>

\* git config fails, no USER, no USERNAME; getScopes not called yet
NoEnv == NoFields
IdentityIdle ==
    /\ identityEnv = NoEnv
    /\ scopeCalls = <<>>

FactIdle ==
    /\ factStore = <<>>
    /\ factOp = NoOp
    /\ factResult = NoResult
    /\ factCreated = <<>>

DefaultConfig ==
    [backend |-> "openmemory", scopePrefix |-> "opencode", maxMemories |-> DEFAULT_maxMemories,
     maxProjectMemories |-> DEFAULT_maxProjectMemories,
     maxProfileItems |-> DEFAULT_maxProfileItems, injectProfile |-> TRUE]

InitREST ==
    /\ CONFIG \in {[DefaultConfig EXCEPT !.maxProfileItems = c] : c \in 1..MaxCap}
    /\ now = 0
    /\ RestIdle
    /\ ToolIdle
    /\ ClientIdle
    /\ ChatIdle
    /\ FormatIdle
    /\ ScopeIdle
    /\ FactIdle
    /\ IdentityIdle

NextREST ==
    \/ \E method \in Methods : \E input \in Inputs(method) : Call(method, input)
    \/ \E status \in {OkStatus} \cup ErrorStatuses : FetchResolves(status)
    \/ FetchRejects
    \/ TimeoutFires
    \/ \E text \in ErrorTexts : BodyText(text)
    \/ \E data \in JsonBodies(restOp.method) : BodyJson(data)
    \/ BodyRejects
    \/ Return
    \/ Tick

SpecREST == InitREST /\ [][NextREST]_vars

----------------------------------------------------------------------------
(* services/privacy.ts: private spans of a payload *)

RedactedSpan == [private |-> FALSE, text |-> "[REDACTED]"]

\* every private span is replaced by the redaction marker
stripPrivateContent(content) ==
    [i \in 1..Len(content) |-> IF content[i].private THEN RedactedSpan ELSE content[i]]

\* nothing but redaction markers and blanks is left of the payload
isFullyPrivate(content) ==
    /\ \E i \in 1..Len(content) : content[i].private
    /\ \A i \in 1..Len(content) :
          stripPrivateContent(content)[i] \in {RedactedSpan, BlankSpan}

----------------------------------------------------------------------------
(* index.ts: the openmemory tool *)

\* x || fallback, for a string field that may be missing
OrElse(r, f, fallback) == IF Has(r, f) /\ r[f] # "" THEN r[f] ELSE fallback
\* x || fallback, for a number field that may be missing
NumOrElse(r, f, fallback) == IF Has(r, f) /\ r[f] # 0 THEN r[f] ELSE fallback
\* x ? Math.round(x * 100) : null, where a null field is a missing field
PctField(r, f) == IF Has(r, f) /\ r[f] # 0 THEN (f :> RoundPct(r[f])) ELSE NoFields

scopes == [user |-> userScope, project |-> projectScope]
scopeOf(args) == IF Has(args, "scope") /\ args.scope = "user" THEN scopes.user ELSE scopes.project
scopeName(args) == OrElse(args, "scope", "project")
call(method, input) == [method |-> method, input |-> input]
fail(message) == [success |-> FALSE, error |-> message]

DefaultSearchLimit == 10
DefaultListLimit == 20
DefaultBoost == 100

\* Array.prototype.sort((a, b) => (b.score || 0) - (a.score || 0)), a stable sort:
\* each element is inserted behind the elements before it that compare <= 0 to it
scoreOrZero(r) == NumOrElse(r, "score", 0)

RECURSIVE sortInsert(_, _)
sortInsert(sorted, x) ==
    IF sorted = <<>> THEN <<x>>
    ELSE IF scoreOrZero(x) - scoreOrZero(Head(sorted)) <= 0
         THEN <<Head(sorted)>> \o sortInsert(Tail(sorted), x)
         ELSE <<x>> \o sorted

RECURSIVE sortByScore(_)
sortByScore(s) ==
    IF s = <<>> THEN <<>>
    ELSE sortInsert(sortByScore(SubSeq(s, 1, Len(s) - 1)), s[Len(s)])

\* one entry of the results of a search response
searchEntry(r) ==
    [id |-> r.id] @@ Opt(r, "content", "content") @@ PctField(r, "score")
    @@ PctField(r, "salience") @@ Opt(r, "sector", "sector") @@ Opt(r, "scope", "scope")

\* formatSearchResults, were the results returned without the slice
formatSearchResultsUncut(query, scope, results, args) ==
    LET memoryResults == IF Has(results, "results") THEN results.results ELSE <<>>
    IN  [success |-> TRUE, query |-> query, scope |-> scope, count |-> Len(memoryResults),
         results |-> MapSeq(memoryResults, searchEntry)]

formatSearchResults(query, scope, results, args) ==
    LET memoryResults == IF Has(results, "results") THEN results.results ELSE <<>>
    IN  [success |-> TRUE, query |-> query, scope |-> scope, count |-> Len(memoryResults),
         results |-> MapSeq(Take(memoryResults, NumOrElse(args, "limit", DefaultSearchLimit)),
                            searchEntry)]

\* case "add", up to its await: were args.content handed to addMemory as it came
addStartVerbatim(args) ==
    IF ~Has(args, "content") \/ args.content = <<>>
    THEN [return |-> fail("content parameter is required for add mode")]
    ELSE IF isFullyPrivate(args.content)
         THEN [return |-> fail("Cannot store fully private content")]
         ELSE [calls |-> <<call("addMemory",
                                [content |-> args.content, scope |-> scopeOf(args)]
                                @@ Opt(args, "type", "type")
                                @@ (IF Has(args, "sector")
                                    THEN [tags |-> <<args.sector>>] ELSE NoFields))>>]

\* case "add", up to its await: the call issued, or the envelope returned at once
addStart(args) ==
    IF ~Has(args, "content") \/ args.content = <<>>
    THEN [return |-> fail("content parameter is required for add mode")]
    ELSE LET sanitizedContent == stripPrivateContent(args.content)
         IN  IF isFullyPrivate(args.content)
             THEN [return |-> fail("Cannot store fully private content")]
             ELSE [calls |-> <<call("addMemory",
                                    [content |-> sanitizedContent, scope |-> scopeOf(args)]
                                    @@ Opt(args, "type", "type")
                                    @@ (IF Has(args, "sector")
                                        THEN [tags |-> <<args.sector>>] ELSE NoFields))>>]

\* case "add", after its await
addFinish(args, results) ==
    LET result == results[1]
    IN  IF ~result.success
        THEN fail(OrElse(result, "error", "Failed to add memory"))
        ELSE [success |-> TRUE,
              message |-> "Memory added to " \o scopeName(args) \o " scope",
              scope |-> scopeName(args)]
             @@ Opt(result, "id", "id") @@ Opt(result, "sector", "sector")
             @@ Opt(args, "type", "type")

searchInput(args, scope) ==
    [query |-> args.query, scope |-> scope] @@ Opt(args, "limit", "limit")
    @@ Opt(args, "sector", "sector")

\* case "search", were the query only required to be given, empty or not
searchStartAcceptsEmpty(args) ==
    IF ~Has(args, "query")
    THEN [return |-> fail("query parameter is required for search mode")]
    ELSE IF Has(args, "scope") /\ args.scope = "user"
    THEN [calls |-> <<call("searchMemories", searchInput(args, scopes.user))>>]
    ELSE IF Has(args, "scope") /\ args.scope = "project"
    THEN [calls |-> <<call("searchMemories", searchInput(args, scopes.project))>>]
    ELSE [calls |-> <<call("searchMemories", searchInput(args, scopes.user)),
                      call("searchMemories", searchInput(args, scopes.project))>>]

\* case "search", up to its await
searchStart(args) ==
    IF ~Has(args, "query") \/ args.query = ""
    THEN [return |-> fail("query parameter is required for search mode")]
    ELSE IF Has(args, "scope") /\ args.scope = "user"
    THEN [calls |-> <<call("searchMemories", searchInput(args, scopes.user))>>]
    ELSE IF Has(args, "scope") /\ args.scope = "project"
    THEN [calls |-> <<call("searchMemories", searchInput(args, scopes.project))>>]
    ELSE [calls |-> <<call("searchMemories", searchInput(args, scopes.user)),
                      call("searchMemories", searchInput(args, scopes.project))>>]

\* case "search" without a scope, after Promise.all: were the branch that
\* succeeded returned alone
searchBothKeepsSurvivor(args, results) ==
    LET found(r) == IF Has(r, "results") THEN r.results ELSE <<>>
        tag(rs, scope) == [i \in 1..Len(rs) |-> [scope |-> scope] @@ rs[i]]
        combined == sortByScore(tag(found(results[1]), "user")
                                \o tag(found(results[2]), "project"))
    IN  [success |-> TRUE, query |-> args.query, count |-> Len(combined),
         results |-> MapSeq(Take(combined, NumOrElse(args, "limit", DefaultSearchLimit)),
                            searchEntry)]

\* case "search" without a scope, after Promise.all: were the merged list
\* left in arrival order
searchBothUnsorted(args, results) ==
    LET userResult == results[1]
        projectResult == results[2]
        found(r) == IF Has(r, "results") THEN r.results ELSE <<>>
        tag(rs, scope) == [i \in 1..Len(rs) |-> [scope |-> scope] @@ rs[i]]
        combined == tag(found(userResult), "user") \o tag(found(projectResult), "project")
    IN  IF ~userResult.success \/ ~projectResult.success
        THEN fail(IF OrElse(userResult, "error", "") # "" THEN userResult.error
                  ELSE OrElse(projectResult, "error", "Failed to search memories"))
        ELSE [success |-> TRUE, query |-> args.query, count |-> Len(combined),
              results |-> MapSeq(Take(combined, NumOrElse(args, "limit", DefaultSearchLimit)),
                                 searchEntry)]

\* case "search" without a scope, after Promise.all
searchBoth(args, results) ==
    LET userResult == results[1]
        projectResult == results[2]
        found(r) == IF Has(r, "results") THEN r.results ELSE <<>>
        tag(rs, scope) == [i \in 1..Len(rs) |-> [scope |-> scope] @@ rs[i]]
        combined == sortByScore(tag(found(userResult), "user")
                                \o tag(found(projectResult), "project"))
    IN  IF ~userResult.success \/ ~projectResult.success
        THEN fail(IF OrElse(userResult, "error", "") # "" THEN userResult.error
                  ELSE OrElse(projectResult, "error", "Failed to search memories"))
        ELSE [success |-> TRUE, query |-> args.query, count |-> Len(combined),
              results |-> MapSeq(Take(combined, NumOrElse(args, "limit", DefaultSearchLimit)),
                                 searchEntry)]

\* case "search", after its await
searchFinish(args, results) ==
    IF Len(results) = 2
    THEN searchBoth(args, results)
    ELSE IF ~results[1].success
         THEN fail(OrElse(results[1], "error", "Failed to search memories"))
         ELSE formatSearchResults(args.query, args.scope, results[1], args)

\* case "profile"
profileStart(args) ==
    [calls |-> <<call("getProfile", [scope |-> scopes.user] @@ Opt(args, "query", "query"))>>]

profileFinish(args, results) ==
    LET result == results[1]
    IN  IF ~result.success
        THEN fail(OrElse(result, "error", "Failed to fetch profile"))
        ELSE [success |-> TRUE,
              profile |-> [static |-> IF Has(result, "profile") THEN result.profile.static
                                      ELSE <<>>,
                           dynamic |-> IF Has(result, "profile") THEN result.profile.dynamic
                                       ELSE <<>>]]

\* case "list"
listStart(args) ==
    [calls |-> <<call("listMemories",
                      [scope |-> scopeOf(args),
                       limit |-> NumOrElse(args, "limit", DefaultListLimit)]
                      @@ Opt(args, "sector", "sector"))>>]

listEntry(m) ==
    [id |-> m.id] @@ Opt(m, "content", "content") @@ Opt(m, "sector", "sector")
    @@ PctField(m, "salience") @@ Opt(m, "tags", "tags") @@ Opt(m, "createdAt", "createdAt")

listFinish(args, results) ==
    LET result == results[1]
        memories == IF Has(result, "memories") THEN result.memories ELSE <<>>
    IN  IF ~result.success
        THEN fail(OrElse(result, "error", "Failed to list memories"))
        ELSE [success |-> TRUE, scope |-> scopeName(args), count |-> Len(memories),
              memories |-> MapSeq(memories, listEntry)]

\* case "forget"
forgetStart(args) ==
    IF ~Has(args, "memoryId") \/ args.memoryId = ""
    THEN [return |-> fail("memoryId parameter is required for forget mode")]
    ELSE [calls |-> <<call("deleteMemory",
                           [memoryId |-> args.memoryId, scope |-> scopeOf(args)])>>]

forgetFinish(args, results) ==
    IF ~results[1].success
    THEN fail(OrElse(results[1], "error", "Failed to delete memory"))
    ELSE [success |-> TRUE,
          message |-> "Memory " \o args.memoryId \o " removed from " \o scopeName(args)
                      \o " scope"]

\* case "reinforce": the REST client has reinforceMemory
reinforceStart(args) ==
    IF ~Has(args, "memoryId") \/ args.memoryId = ""
    THEN [return |-> fail("memoryId parameter is required for reinforce mode")]
    ELSE [calls |-> <<call("reinforceMemory",
                           [memoryId |-> args.memoryId,
                            boost |-> NumOrElse(args, "boost", DefaultBoost)])>>]

reinforceFinish(args, results) ==
    IF ~results[1].success
    THEN fail(OrElse(results[1], "error", "Failed to reinforce memory"))
    ELSE [success |-> TRUE,
          message |-> "Memory " \o args.memoryId \o " reinforced by "
                      \o ToString(NumOrElse(args, "boost", DefaultBoost))]

\* case "help"
helpReturn ==
    [success |-> TRUE, message |-> "OpenMemory Usage Guide",
     commands |-> <<"add", "search", "profile", "list", "forget", "reinforce">>]

isConfigured == TRUE
modeOf(args) == OrElse(args, "mode", "help")

\* execute, were an unknown mode answered with the usage guide
executeStartHelpsUnknown(args) ==
    CASE modeOf(args) = "add" -> addStart(args)
      [] modeOf(args) = "search" -> searchStart(args)
      [] modeOf(args) = "profile" -> profileStart(args)
      [] modeOf(args) = "list" -> listStart(args)
      [] modeOf(args) = "forget" -> forgetStart(args)
      [] modeOf(args) = "reinforce" -> reinforceStart(args)
      [] OTHER -> [return |-> helpReturn]

\* execute, up to its first await
executeStart(args) ==
    IF ~isConfigured
    THEN [return |-> fail("OpenMemory not configured. Ensure OpenMemory MCP server is running or configure REST API.")]
    ELSE CASE modeOf(args) = "help" -> [return |-> helpReturn]
           [] modeOf(args) = "add" -> addStart(args)
           [] modeOf(args) = "search" -> searchStart(args)
           [] modeOf(args) = "profile" -> profileStart(args)
           [] modeOf(args) = "list" -> listStart(args)
           [] modeOf(args) = "forget" -> forgetStart(args)
           [] modeOf(args) = "reinforce" -> reinforceStart(args)
           [] OTHER -> [return |-> fail("Unknown mode: " \o modeOf(args))]

\* execute, from the await of its client calls to its return
executeFinish(args, results) ==
    \* the catch around the switch: the error a client call rejected with
    IF \E i \in 1..Len(results) : Has(results[i], "thrown")
    THEN fail((CHOOSE r \in {results[i] : i \in 1..Len(results)} : Has(r, "thrown")).thrown)
    ELSE
    CASE modeOf(args) = "add" -> addFinish(args, results)
      [] modeOf(args) = "search" -> searchFinish(args, results)
      [] modeOf(args) = "profile" -> profileFinish(args, results)
      [] modeOf(args) = "list" -> listFinish(args, results)
      [] modeOf(args) = "forget" -> forgetFinish(args, results)
      [] modeOf(args) = "reinforce" -> reinforceFinish(args, results)

(* The arguments the host can pass *)
Payloads == {<<PublicSpan>>, <<PublicSpan, PrivateSpan>>, <<PrivateSpan>>,
             <<PrivateSpan, BlankSpan>>, <<PrivateSpan, PublicSpan, PrivateSpan>>}
SearchLimits == {0, 1, 3, 11}
OptField(f, values) == {NoFields} \cup {(f :> v) : v \in values}

ToolArgs ==
    {NoFields, [mode |-> ""], [mode |-> "help"], [mode |-> "bogus"], [mode |-> "bogus", query |-> "deploy steps"]}
    \cup {[mode |-> "add"] @@ c @@ sc @@ se :
            c \in OptField("content", Payloads \cup {<<>>}),
            sc \in OptField("scope", {"user"}),
            se \in OptField("sector", {"procedural"})}
    \cup {[mode |-> "search"] @@ q @@ sc @@ l :
            q \in OptField("query", {"", "deploy steps"}),
            sc \in OptField("scope", {"user", "project"}),
            l \in OptField("limit", SearchLimits)}
    \cup {[mode |-> "profile"] @@ q : q \in OptField("query", {"deploy steps"})}
    \cup {[mode |-> "list"] @@ sc @@ l :
            sc \in OptField("scope", {"user"}), l \in OptField("limit", {0, 1})}
    \cup {[mode |-> m] @@ id @@ sc :
            m \in {"forget", "reinforce"},
            id \in OptField("memoryId", {"", "m1"}),
            sc \in OptField("scope", {"user"})}

\* the matches a search of the tool gets back: up to MaxSearchHits of them, their
\* scores equal, or alternating from the higher or from the lower one; ids by position
SearchScores == {900, 950}
ScoreRuns ==
    {[i \in 1..n |-> IF i % 2 = 1 THEN a ELSE b] :
        n \in 0..MaxSearchHits, a \in SearchScores, b \in SearchScores}
searchHits(prefix, ss) ==
    [i \in 1..Len(ss) |-> [id |-> prefix \o ToString(i), content |-> "note", score |-> ss[i]]]
scopeTag(input) == IF Has(input.scope, "projectId") THEN "p" ELSE "u"

\* what the transport can do for a client call of the tool
ToolResponses(c) ==
    {Thrown(TimeoutMessage), HttpFailure(500, "boom")}
    \cup CASE c.method = "searchMemories" ->
                {JsonBody([type |-> "object", matches |-> searchHits(scopeTag(c.input), ss)]) :
                    ss \in ScoreRuns}
           [] c.method \in {"deleteMemory", "reinforceMemory"} -> {NoBody}
           [] c.method = "getProfile" ->
                {JsonBody([type |-> "object", matches |-> ms]) :
                    ms \in SeqsUpTo(QueryMatches, 1)}
           [] c.method = "listMemories" ->
                {JsonBody([type |-> "object", items |-> is]) : is \in SeqsUpTo(ListItems, 1)}
           [] OTHER -> {JsonBody(d) : d \in JsonBodies(c.method)}

\* execute is called and runs up to its await, or to its return
Execute(args) ==
    /\ toolPc = "idle"
    /\ toolArgs' = args
    /\ toolResults' = <<>>
    /\ LET started == executeStart(args)
       IN  IF Has(started, "return")
           THEN toolPc' = "done" /\ toolCalls' = <<>> /\ toolReturn' = started.return
           ELSE toolPc' = "await" /\ toolCalls' = started.calls /\ toolReturn' = NoResult
    /\ UNCHANGED <<CONFIG, now, nonToolVars>>

\* the client calls resolve (Promise.all for two of them) and execute returns
CallsResolve(resps) ==
    /\ toolPc = "await"
    /\ toolPc' = "done"
    /\ LET results == [i \in 1..Len(toolCalls) |->
                          return(toolCalls[i].method, toolCalls[i].input, resps[i])]
       IN  /\ toolResults' = results
           /\ toolReturn' = executeFinish(toolArgs, results)
    /\ UNCHANGED <<CONFIG, now, toolArgs, toolCalls, nonToolVars>>

\* the host takes the JSON string
Deliver ==
    /\ toolPc = "done"
    /\ toolPc' = "idle"
    /\ toolArgs' = NoArgs
    /\ toolCalls' = <<>>
    /\ toolResults' = <<>>
    /\ toolReturn' = NoResult
    /\ UNCHANGED <<CONFIG, now, nonToolVars>>

InitTool ==
    /\ CONFIG = DefaultConfig
    /\ now = 0
    /\ RestIdle
    /\ ToolIdle
    /\ ClientIdle
    /\ ChatIdle
    /\ FormatIdle
    /\ ScopeIdle
    /\ FactIdle
    /\ IdentityIdle

NextTool ==
    \/ \E args \in ToolArgs : Execute(args)
    \/ /\ Len(toolCalls) = 1
       /\ \E r1 \in ToolResponses(toolCalls[1]) : CallsResolve(<<r1>>)
    \/ /\ Len(toolCalls) = 2
       /\ \E r1 \in ToolResponses(toolCalls[1]), r2 \in ToolResponses(toolCalls[2]) :
             CallsResolve(<<r1, r2>>)
    \/ Deliver

SpecTool == InitTool /\ [][NextTool]_vars

----------------------------------------------------------------------------
(* services/context.ts: the context block; a text is its lines, a line its pieces *)

ContextMarker == <<"[OPENMEMORY]">>
ProfileHeader == <<"\nUser Profile:">>
RecentHeader == <<"\nRecent Context:">>
ProjectHeader == <<"\nProject Knowledge:">>
MemoriesHeader == <<"\nRelevant Memories:">>

\* mem.score ? Math.round(mem.score * 100) : null, and the same of salience
pctOrNull(mem, f) == IF Has(mem, f) /\ mem[f] # 0 THEN RoundPct(mem[f]) ELSE -1

projectLine(mem) ==
    LET score == pctOrNull(mem, "score")
        salience == pctOrNull(mem, "salience")
        content == OrElse(mem, "content", "")
    IN  IF score # -1 THEN <<"- ", "[" \o ToString(score) \o "%]", " ", content>>
        ELSE IF salience # -1 THEN <<"- ", "[sal:" \o ToString(salience) \o "%]", " ", content>>
        ELSE <<"- ", content>>

memoryLine(mem) ==
    LET score == pctOrNull(mem, "score")
        salience == pctOrNull(mem, "salience")
        content == OrElse(mem, "content", "")
        sector == IF Has(mem, "sector") /\ mem.sector # ""
                  THEN "[" \o mem.sector \o "]" ELSE ""
    IN  IF score # -1 THEN <<"- ", sector, "[" \o ToString(score) \o "%]", " ", content>>
        ELSE IF salience # -1
             THEN <<"- ", sector, "[sal:" \o ToString(salience) \o "%]", " ", content>>
        ELSE <<"- ", sector, " ", content>>

factLine(fact) == <<"- ", fact>>

\* projectMemories.results || projectMemories.memories || []
resultsOrMemories(r) ==
    IF Has(r, "results") THEN r.results
    ELSE IF Has(r, "memories") THEN r.memories ELSE <<>>

\* the block, were the marker returned also when nothing follows it
formatContextForPromptBareMarker(profile, userMemories, projectMemories) ==
    LET facts(f) == IF CONFIG.injectProfile /\ Has(profile, "profile")
                    THEN Take(profile.profile[f], CONFIG.maxProfileItems) ELSE <<>>
        section(header, lines) == IF Len(lines) > 0 THEN <<header>> \o lines ELSE <<>>
    IN  <<ContextMarker>>
        \o section(ProfileHeader, MapSeq(facts("static"), factLine))
        \o section(RecentHeader, MapSeq(facts("dynamic"), factLine))
        \o section(ProjectHeader, MapSeq(resultsOrMemories(projectMemories), projectLine))
        \o section(MemoriesHeader, MapSeq(resultsOrMemories(userMemories), memoryLine))

\* the lines of the block; no line at all for the empty string
formatContextForPrompt(profile, userMemories, projectMemories) ==
    LET staticFacts == profile.profile.static
        dynamicFacts == profile.profile.dynamic
        profileLines ==
            IF CONFIG.injectProfile /\ Has(profile, "profile")
            THEN (IF Len(staticFacts) > 0
                  THEN <<ProfileHeader>>
                       \o MapSeq(Take(staticFacts, CONFIG.maxProfileItems), factLine)
                  ELSE <<>>)
                 \o (IF Len(dynamicFacts) > 0
                     THEN <<RecentHeader>>
                          \o MapSeq(Take(dynamicFacts, CONFIG.maxProfileItems), factLine)
                     ELSE <<>>)
            ELSE <<>>
        projectResults == resultsOrMemories(projectMemories)
        projectLines == IF Len(projectResults) > 0
                        THEN <<ProjectHeader>> \o MapSeq(projectResults, projectLine)
                        ELSE <<>>
        userResults == resultsOrMemories(userMemories)
        userLines == IF Len(userResults) > 0
                     THEN <<MemoriesHeader>> \o MapSeq(userResults, memoryLine)
                     ELSE <<>>
        parts == <<ContextMarker>> \o profileLines \o projectLines \o userLines
    IN  IF Len(parts) = 1 THEN <<>> ELSE parts

----------------------------------------------------------------------------
(* index.ts: the chat.message hook; a user text is its words in order *)

Word(w) == [code |-> FALSE, text |-> w]
\* an inline code span or a fenced code block, w with its back quotes
Code(w) == [code |-> TRUE, text |-> w]
Newline == Word("\n")
Whitespace == {" ", "\n"}
\* the one-word alternatives of MEMORY_KEYWORD_PATTERN
MemoryKeywords == {"remember", "memorize"}
MEMORY_NUDGE_MESSAGE == <<<<"[MEMORY TRIGGER DETECTED]">>>>

removeCodeBlocks(text) == LET kept(t) == ~t.code IN Filter(text, kept)
detectMemoryKeyword(text) ==
    \E i \in 1..Len(removeCodeBlocks(text)) : removeCodeBlocks(text)[i].text \in MemoryKeywords

RECURSIVE join(_, _)
join(texts, sep) ==
    IF texts = <<>> THEN <<>>
    ELSE IF Len(texts) = 1 THEN texts[1]
    ELSE texts[1] \o <<sep>> \o join(Tail(texts), sep)

trim(text) ==
    LET inked == {i \in 1..Len(text) : text[i].code \/ text[i].text \notin Whitespace}
    IN  IF inked = {} THEN <<>>
        ELSE SubSeq(text, CHOOSE i \in inked : \A j \in inked : i <= j,
                          CHOOSE i \in inked : \A j \in inked : i >= j)

\* the characters of a text
RECURSIVE stringOf(_)
stringOf(text) ==
    IF text = <<>> THEN ""
    ELSE Head(text).text \o stringOf(Tail(text))

MessageId == "msg1"
syntheticPart(prefix, sessionID, text) ==
    [id |-> prefix \o ToString(DateNow), sessionID |-> sessionID, messageID |-> MessageId,
     type |-> "text", text |-> text, synthetic |-> TRUE]

\* the handler, up to its await: were the session not recorded before Promise.all
chatMessageStartRecordsLate(injected, sessionID, parts) ==
    LET isText(q) == q.type = "text"
        textOf(q) == q.text
        textParts == Filter(parts, isText)
        userMessage == join(MapSeq(textParts, textOf), Newline)
        nudged == IF detectMemoryKeyword(userMessage)
                  THEN Append(parts, syntheticPart("openmemory-nudge-", sessionID,
                                                   MEMORY_NUDGE_MESSAGE))
                  ELSE parts
        returns(ps) == [await |-> FALSE, parts |-> ps, injectedSessions |-> injected]
    IN  IF ~isConfigured THEN returns(parts)
        ELSE IF Len(textParts) = 0 THEN returns(parts)
        ELSE IF trim(userMessage) = <<>> THEN returns(parts)
        ELSE IF sessionID \notin injected
        THEN [await |-> TRUE, parts |-> nudged, injectedSessions |-> injected,
              calls |-> <<call("getProfile",
                               [scope |-> scopes.user, query |-> stringOf(userMessage)]),
                          call("searchMemories",
                               [query |-> stringOf(userMessage), scope |-> scopes.user,
                                limit |-> CONFIG.maxMemories]),
                          call("listMemories",
                               [scope |-> scopes.project,
                                limit |-> CONFIG.maxProjectMemories])>>]
        ELSE returns(nudged)

\* the handler, up to its await: were the session recorded as soon as it is called
chatMessageStartRecordsFirst(injected, sessionID, parts) ==
    LET isText(q) == q.type = "text"
        textOf(q) == q.text
        textParts == Filter(parts, isText)
        userMessage == join(MapSeq(textParts, textOf), Newline)
        nudged == IF detectMemoryKeyword(userMessage)
                  THEN Append(parts, syntheticPart("openmemory-nudge-", sessionID,
                                                   MEMORY_NUDGE_MESSAGE))
                  ELSE parts
        returns(ps) == [await |-> FALSE, parts |-> ps,
                        injectedSessions |-> injected \cup {sessionID}]
    IN  IF ~isConfigured THEN returns(parts)
        ELSE IF Len(textParts) = 0 THEN returns(parts)
        ELSE IF trim(userMessage) = <<>> THEN returns(parts)
        ELSE IF sessionID \notin injected
        THEN [await |-> TRUE, parts |-> nudged,
              injectedSessions |-> injected \cup {sessionID},
              calls |-> <<call("getProfile",
                               [scope |-> scopes.user, query |-> stringOf(userMessage)]),
                          call("searchMemories",
                               [query |-> stringOf(userMessage), scope |-> scopes.user,
                                limit |-> CONFIG.maxMemories]),
                          call("listMemories",
                               [scope |-> scopes.project,
                                limit |-> CONFIG.maxProjectMemories])>>]
        ELSE returns(nudged)

\* the handler, up to its await or to its return
chatMessageStart(injected, sessionID, parts) ==
    LET isText(q) == q.type = "text"
        textOf(q) == q.text
        textParts == Filter(parts, isText)
        userMessage == join(MapSeq(textParts, textOf), Newline)
        nudged == IF detectMemoryKeyword(userMessage)
                  THEN Append(parts, syntheticPart("openmemory-nudge-", sessionID,
                                                   MEMORY_NUDGE_MESSAGE))
                  ELSE parts
        returns(ps) == [await |-> FALSE, parts |-> ps, injectedSessions |-> injected]
    IN  IF ~isConfigured THEN returns(parts)
        ELSE IF Len(textParts) = 0 THEN returns(parts)
        ELSE IF trim(userMessage) = <<>> THEN returns(parts)
        ELSE IF sessionID \notin injected
        THEN [await |-> TRUE, parts |-> nudged,
              injectedSessions |-> injected \cup {sessionID},
              calls |-> <<call("getProfile",
                               [scope |-> scopes.user, query |-> stringOf(userMessage)]),
                          call("searchMemories",
                               [query |-> stringOf(userMessage), scope |-> scopes.user,
                                limit |-> CONFIG.maxMemories]),
                          call("listMemories",
                               [scope |-> scopes.project,
                                limit |-> CONFIG.maxProjectMemories])>>]
        ELSE returns(nudged)

\* projectMemory, were 1 the score only of an item without salience (?? for ||)
projectMemoryKeepsZero(m) ==
    [id |-> m.id, content |-> m.content,
     score |-> IF Has(m, "salience") THEN m.salience ELSE ScoreScale]
    @@ Opt(m, "salience", "salience") @@ Opt(m, "sector", "sector")
    @@ Opt(m, "tags", "tags") @@ Opt(m, "metadata", "metadata")

\* the project memories as the formatter takes them
projectMemory(m) ==
    [id |-> m.id, content |-> m.content, score |-> NumOrElse(m, "salience", ScoreScale)]
    @@ Opt(m, "salience", "salience") @@ Opt(m, "sector", "sector")
    @@ Opt(m, "tags", "tags") @@ Opt(m, "metadata", "metadata")

\* injectContext, were the context part pushed behind the parts
injectContextBehind(sessionID, parts, memoryContext) ==
    IF memoryContext # <<>>
    THEN Append(parts, syntheticPart("openmemory-context-", sessionID, memoryContext))
    ELSE parts

\* if (memoryContext) output.parts.unshift(contextPart)
injectContext(sessionID, parts, memoryContext) ==
    IF memoryContext # <<>>
    THEN <<syntheticPart("openmemory-context-", sessionID, memoryContext)>> \o parts
    ELSE parts

\* the handler after Promise.all: were a failed call to fail the whole retrieval
chatMessageFinishAllOrNothing(sessionID, parts, results) ==
    LET projectMemories ==
            [results |-> MapSeq(resultsOrMemories(results[3]), projectMemory),
             total |-> Len(resultsOrMemories(results[3]))]
        memoryContext == formatContextForPrompt(results[1], results[2], projectMemories)
    IN  IF \E i \in 1..3 : ~results[i].success THEN parts
        ELSE IF memoryContext # <<>>
        THEN <<syntheticPart("openmemory-context-", sessionID, memoryContext)>> \o parts
        ELSE parts

\* the handler after Promise.all: output.parts when it returns
chatMessageFinish(sessionID, parts, results) ==
    LET profileResult == results[1]
        userMemoriesResult == results[2]
        projectMemoriesListResult == results[3]
        profile == IF profileResult.success THEN profileResult ELSE Null
        userMemories == IF userMemoriesResult.success THEN userMemoriesResult
                        ELSE [results |-> <<>>]
        projectMemoriesList == IF projectMemoriesListResult.success
                               THEN projectMemoriesListResult ELSE [memories |-> <<>>]
        memories == IF Has(projectMemoriesList, "memories")
                    THEN projectMemoriesList.memories ELSE <<>>
        projectMemories == [results |-> MapSeq(memories, projectMemory),
                            total |-> Len(memories)]
        memoryContext == formatContextForPrompt(profile, userMemories, projectMemories)
    IN  injectContext(sessionID, parts, memoryContext)

(* The messages the host can send and what the backend can answer *)
TextPart(text) == [type |-> "text", text |-> text]
FilePart == [type |-> "file"]
PlainText == <<Word("deploy"), Word(" "), Word("steps")>>
KeywordText == <<Word("remember"), Word(" "), Word("tabs")>>
CodeText == <<Code("remember")>>
BlankText == <<Word(" "), Newline>>
ChatInputs ==
    {<<TextPart(PlainText)>>, <<FilePart, TextPart(KeywordText)>>, <<TextPart(CodeText)>>,
     <<FilePart>>, <<TextPart(BlankText)>>, <<TextPart(BlankText), TextPart(PlainText)>>}

FanOutFailures == {Thrown(TimeoutMessage), HttpFailure(500, "boom")}
FanOutResponses(c) ==
    FanOutFailures
    \cup CASE c.method = "getProfile" ->
                {JsonBody([type |-> "object", matches |-> ms]) :
                    ms \in SeqsUpTo({m \in QueryMatches : m.id = "m2"}, 1)}
           [] c.method = "searchMemories" ->
                {JsonBody([type |-> "object", matches |-> ms]) :
                    ms \in SeqsUpTo({m \in QueryMatches : m.id \in {"m1", "m4"}}, 1)}
           [] c.method = "listMemories" ->
                {JsonBody([type |-> "object", items |-> is]) :
                    is \in SeqsUpTo({m \in ListItems : m.id \in {"i1", "i3"}}, 1)}

\* the host calls the hook for a message of a session: the handler runs up to
\* its await, or to its return
ChatMessage(sessionID, parts) ==
    /\ chatReturned = NoFrame
    /\ LET started == chatMessageStart(injectedSessions, sessionID, parts)
       IN  /\ injectedSessions' = started.injectedSessions
           /\ IF started.await
              THEN /\ Len(chatAwaiting) < MaxHandlers
                   /\ chatAwaiting' = Append(chatAwaiting,
                                             [sessionID |-> sessionID, input |-> parts,
                                              parts |-> started.parts,
                                              calls |-> started.calls])
                   /\ retrievals' = [retrievals EXCEPT ![sessionID] = @ + 1]
                   /\ chatReturned' = NoFrame
              ELSE /\ chatReturned' = [sessionID |-> sessionID, input |-> parts,
                                       results |-> <<>>, parts |-> started.parts]
                   /\ UNCHANGED <<chatAwaiting, retrievals>>
    /\ UNCHANGED <<CONFIG, now, injections, restarts, injectedBefore, nonChatVars>>

\* the three calls of a suspended handler have resolved: it formats, injects
\* and returns
PromiseAllResolves(i, resps) ==
    /\ chatReturned = NoFrame
    /\ LET frame == chatAwaiting[i]
           results == [k \in 1..3 |->
                          return(frame.calls[k].method, frame.calls[k].input, resps[k])]
           parts == chatMessageFinish(frame.sessionID, frame.parts, results)
       IN  /\ chatReturned' = [sessionID |-> frame.sessionID, input |-> frame.input,
                               results |-> results, parts |-> parts]
           /\ injections' = IF Len(parts) > Len(frame.parts)
                            THEN [injections EXCEPT ![frame.sessionID] = @ + 1]
                            ELSE injections
           /\ chatAwaiting' = SubSeq(chatAwaiting, 1, i - 1)
                              \o SubSeq(chatAwaiting, i + 1, Len(chatAwaiting))
    /\ UNCHANGED <<CONFIG, now, injectedSessions, retrievals, restarts, injectedBefore,
                   nonChatVars>>

\* the host goes on with the parts the handler left
HostTakes ==
    /\ chatReturned # NoFrame
    /\ chatReturned' = NoFrame
    /\ UNCHANGED <<CONFIG, now, injectedSessions, chatAwaiting, retrievals, injections,
                   restarts, injectedBefore, nonChatVars>>

\* the host process ends and the plugin is loaded anew: OpenMemoryPlugin builds
\* a new, empty set and no handler of the old process is left
Restart ==
    /\ restarts < MaxRestarts
    /\ restarts' = restarts + 1
    /\ injectedSessions' = {}
    /\ chatAwaiting' = <<>>
    /\ chatReturned' = NoFrame
    /\ retrievals' = [s \in Sessions |-> 0]
    /\ injections' = [s \in Sessions |-> 0]
    /\ injectedBefore' = injectedBefore \cup {s \in Sessions : injections[s] > 0}
    /\ UNCHANGED <<CONFIG, now, nonChatVars>>

Init ==
    /\ CONFIG \in {[DefaultConfig EXCEPT !.injectProfile = b] : b \in BOOLEAN}
    /\ now = 0
    /\ RestIdle
    /\ ToolIdle
    /\ ClientIdle
    /\ ChatIdle
    /\ FormatIdle
    /\ ScopeIdle
    /\ FactIdle
    /\ IdentityIdle

Next ==
    \/ \E sessionID \in Sessions, parts \in ChatInputs : ChatMessage(sessionID, parts)
    \/ \E i \in 1..Len(chatAwaiting) :
          \E r1 \in FanOutResponses(chatAwaiting[i].calls[1]),
             r2 \in FanOutResponses(chatAwaiting[i].calls[2]),
             r3 \in FanOutResponses(chatAwaiting[i].calls[3]) :
                PromiseAllResolves(i, <<r1, r2, r3>>)
    \/ HostTakes
    \/ Restart

Spec == Init /\ [][Next]_vars

----------------------------------------------------------------------------
(* The context block of one message: the profile is retrieved or handed in,
   the block is formatted and put before the parts of the message *)

FactLists ==
    {<<>>, <<"likes tabs">>, <<"uses pnpm", "likes tabs">>,
     <<"terse", "uses pnpm", "likes tabs", "runs lint", "no tabs">>}
ProfileInputs ==
    {Null, [success |-> TRUE]}
    \cup {[success |-> TRUE, profile |-> [static |-> st, dynamic |-> dy]] :
            st \in FactLists, dy \in FactLists}

\* MemoryItems with and without score, salience and sector; 0 is a score too
FormatItems ==
    { [id |-> "a", content |-> "monorepo", score |-> 820],
      [id |-> "b", content |-> "node 20", score |-> 0, salience |-> 400],
      [id |-> "c", content |-> "ci on push", score |-> 0],
      [id |-> "d", content |-> "runs lint", salience |-> 824],
      [id |-> "e", content |-> "terse", salience |-> 0],
      [id |-> "f", content |-> "likes tabs"],
      [id |-> "g", content |-> "uses pnpm", score |-> 825, salience |-> 500,
       sector |-> "semantic"],
      [id |-> "h", content |-> "no tabs", score |-> ScoreScale, sector |-> "episodic"] }
ItemLists ==
    {<<>>} \cup {<<m>> : m \in FormatItems}
    \cup {<<m, n>> : m \in {x \in FormatItems : x.id = "a"},
                     n \in {x \in FormatItems : x.id \in {"b", "f"}}}

\* index.ts: getProfile has returned; a failed profile is null to the formatter
ProfileRetrieved(resp) ==
    /\ fmtPc = "idle"
    /\ fmtPc' = "ready"
    /\ fmtRetrieval' = resp
    /\ LET profileResult == getProfile([scope |-> scopes.user], resp)
       IN  fmtArgs' = [profile |-> IF profileResult.success THEN profileResult ELSE Null]
    /\ UNCHANGED <<CONFIG, now, fmtText, fmtParts, nonFmtVars>>

\* a ProfileResult of any other origin is handed to the formatter
ProfileGiven(profile) ==
    /\ fmtPc = "idle"
    /\ fmtPc' = "ready"
    /\ fmtArgs' = [profile |-> profile]
    /\ UNCHANGED <<CONFIG, now, fmtRetrieval, fmtText, fmtParts, nonFmtVars>>

\* formatContextForPrompt is called and its result handled as chat.message does
Format(userResults, projectResults, parts) ==
    /\ fmtPc = "ready"
    /\ fmtPc' = "done"
    /\ LET userMemories == [results |-> userResults]
           projectMemories == [results |-> projectResults, total |-> Len(projectResults)]
           memoryContext == formatContextForPrompt(fmtArgs.profile, userMemories,
                                                   projectMemories)
       IN  /\ fmtArgs' = [profile |-> fmtArgs.profile, userMemories |-> userMemories,
                          projectMemories |-> projectMemories, parts |-> parts]
           /\ fmtText' = memoryContext
           /\ fmtParts' = injectContext("s1", parts, memoryContext)
    /\ UNCHANGED <<CONFIG, now, fmtRetrieval, nonFmtVars>>

\* the first turn of a session: the project listing is mapped, then formatted
FaintItem == [id |-> "i4", content |-> "old note", salience |-> 4]
Listings == SeqsUpTo({itemToMemoryItem(m) : m \in ListItems \cup {FaintItem}}, MaxMatches)
FormatListing(userResults, listing, parts) ==
    /\ fmtPc = "ready"
    /\ fmtPc' = "done"
    /\ LET userMemories == [results |-> userResults]
           projectMemories == [results |-> MapSeq(listing, projectMemory),
                               total |-> Len(listing)]
           memoryContext == formatContextForPrompt(fmtArgs.profile, userMemories,
                                                   projectMemories)
       IN  /\ fmtArgs' = [profile |-> fmtArgs.profile, userMemories |-> userMemories,
                          projectMemories |-> projectMemories, parts |-> parts,
                          listing |-> listing]
           /\ fmtText' = memoryContext
           /\ fmtParts' = injectContext("s1", parts, memoryContext)
    /\ UNCHANGED <<CONFIG, now, fmtRetrieval, nonFmtVars>>

FormatDone ==
    /\ fmtPc = "done"
    /\ fmtPc' = "idle"
    /\ fmtRetrieval' = Pending
    /\ fmtArgs' = NoArgs
    /\ fmtText' = <<>>
    /\ fmtParts' = <<>>
    /\ UNCHANGED <<CONFIG, now, nonFmtVars>>

InitFormat ==
    /\ CONFIG \in {[DefaultConfig EXCEPT !.maxProfileItems = c, !.injectProfile = b] :
                    c \in 1..MaxCap, b \in BOOLEAN}
    /\ now = 0
    /\ RestIdle
    /\ ToolIdle
    /\ ClientIdle
    /\ ChatIdle
    /\ FormatIdle
    /\ ScopeIdle
    /\ FactIdle
    /\ IdentityIdle

NextFormat ==
    \/ \E resp \in Responses("getProfile") : ProfileRetrieved(resp)
    \/ \E profile \in ProfileInputs : ProfileGiven(profile)
    \/ \E userResults \in ItemLists, projectResults \in ItemLists :
          Format(userResults, projectResults, <<TextPart(PlainText)>>)
    \/ \E userResults \in {<<>>, <<CHOOSE m \in FormatItems : m.id = "a">>},
          listing \in Listings :
          FormatListing(userResults, listing, <<TextPart(PlainText)>>)
    \/ FormatDone

SpecFormat == InitFormat /\ [][NextFormat]_vars

----------------------------------------------------------------------------
(* The identifiers under which the backend keeps the memories of two scopes *)

ScopePrefixes == {"opencode", "team:a"}

\* two requests, each for a scope: the user_id each carries
ScopeIdsComposed(a, b) ==
    /\ scopeIds' = <<[scope |-> a, user_id |-> getScopeUserId(a)],
                     [scope |-> b, user_id |-> getScopeUserId(b)]>>
    /\ UNCHANGED <<CONFIG, now, nonScopeVars>>

InitScope ==
    /\ CONFIG \in {[DefaultConfig EXCEPT !.scopePrefix = q] : q \in ScopePrefixes}
    /\ now = 0
    /\ RestIdle
    /\ ToolIdle
    /\ ClientIdle
    /\ ChatIdle
    /\ FormatIdle
    /\ ScopeIdle
    /\ FactIdle
    /\ IdentityIdle

NextScope == \E a \in AllScopes, b \in AllScopes : ScopeIdsComposed(a, b)

SpecScope == InitScope /\ [][NextScope]_vars

----------------------------------------------------------------------------
(* services/tags.ts: the scopes of a user and a directory.  The environment is
   the output of git config user.email (missing when the command fails) and
   the variables USER and USERNAME of process.env *)

\* createHash("sha256").update(input).digest("hex").slice(0, 16) of the
\* strings that occur
Digest ==
    ("a@x.io" :> "aa8a6b1226018606") @@ ("al" :> "6351825030155836")
    @@ ("bob" :> "81b637d8fcd2c6da") @@ ("anonymous" :> "2f183a4e64493af3")
    @@ ("/work/app" :> "70467eff2e0a2364") @@ ("/work/lib" :> "7f1e12aafb686ac6")
sha256(input) == Digest[input]

\* the trimmed output of git config user.email, or null: "" stands for null
getGitEmail ==
    IF Has(identityEnv, "stdout") THEN stringOf(trim(identityEnv.stdout)) ELSE ""

\* getUserId, were the login name preferred to the git email
getUserIdPrefersLogin ==
    IF OrElse(identityEnv, "USER", "") # "" THEN sha256(identityEnv.USER)
    ELSE IF getGitEmail # "" THEN sha256(getGitEmail)
    ELSE sha256(OrElse(identityEnv, "USERNAME", "anonymous"))

getUserId ==
    IF getGitEmail # "" THEN sha256(getGitEmail)
    ELSE sha256(OrElse(identityEnv, "USER", OrElse(identityEnv, "USERNAME", "anonymous")))

getProjectId(directory) == sha256(directory)

getScopes(directory) ==
    [user |-> [userId |-> getUserId],
     project |-> [userId |-> getUserId, projectId |-> getProjectId(directory)]]

Directories == {"/work/app", "/work/lib"}
Environments ==
    {out @@ user @@ username :
        out \in {NoFields, [stdout |-> <<Newline>>],
                 [stdout |-> <<Word("a@x.io"), Newline>>]},
        user \in {NoFields, [USER |-> ""], [USER |-> "al"]},
        username \in {NoFields, [USERNAME |-> "bob"]}}

\* the plugin starts in a directory: getScopes is called
GetScopes(directory) ==
    /\ scopeCalls' = (IF scopeCalls = <<>> THEN <<>> ELSE <<scopeCalls[Len(scopeCalls)]>>)
                     \o <<[env |-> identityEnv, directory |-> directory,
                           scopes |-> getScopes(directory)]>>
    /\ UNCHANGED <<CONFIG, now, identityEnv, nonIdentVars>>

\* the user changes the git configuration or logs in under another name
EnvChanges(env) ==
    /\ env # identityEnv
    /\ identityEnv' = env
    /\ UNCHANGED <<CONFIG, now, scopeCalls, nonIdentVars>>

InitIdentity ==
    /\ CONFIG = DefaultConfig
    /\ now = 0
    /\ RestIdle
    /\ ToolIdle
    /\ ClientIdle
    /\ ChatIdle
    /\ FormatIdle
    /\ ScopeIdle
    /\ FactIdle
    /\ identityEnv \in Environments
    /\ scopeCalls = <<>>

NextIdentity ==
    \/ \E directory \in Directories : GetScopes(directory)
    \/ \E env \in Environments : EnvChanges(env)

SpecIdentity == InitIdentity /\ [][NextIdentity]_vars

----------------------------------------------------------------------------
(* The temporal facts: the methods of the REST client against a backend that
   keeps the facts as the specification describes its endpoints *)

\* most facts the backend stores
MaxFacts == 2

\* the instants of the backend's clock
Instants == {0, TickMs}

\* a fact is valid at t: valid_from <= t, and valid_to unset or t < valid_to
ValidAt(f, t) == f.valid_from <= t /\ (Has(f, "valid_to") => t < f.valid_to)
factsAt(store, subject, t) ==
    SelectSeq(store, LAMBDA f : f.subject = subject /\ ValidAt(f, t))
idsOf(facts) == {facts[i].id : i \in 1..Len(facts)}

\* POST /api/temporal/fact: a new fact version is stored, no other fact is touched
storeFact(store, body, t) ==
    LET fact == [id |-> "f" \o ToString(Len(store) + 1),
                 subject |-> body.subject, predicate |-> body.predicate,
                 object |-> body.object,
                 valid_from |-> IF Has(body, "valid_from") THEN body.valid_from ELSE t,
                 confidence |-> IF Has(body, "confidence") THEN body.confidence
                                ELSE ScoreScale]
    IN  [store |-> Append(store, fact), resp |-> JsonBody([type |-> "object"] @@ fact)]

\* DELETE /api/temporal/fact/:id: the fact's valid_to is set, to now by default
closeFact(store, path, body, t) ==
    LET at == {i \in 1..Len(store) : path = "/api/temporal/fact/" \o store[i].id}
        validTo == IF Has(body, "valid_to") THEN body.valid_to ELSE t
    IN  IF at = {}
        THEN [store |-> store, resp |-> HttpFailure(404, "Fact not found")]
        ELSE [store |-> [i \in 1..Len(store) |->
                            IF i \in at THEN [valid_to |-> validTo] @@ store[i]
                            ELSE store[i]],
              resp |-> JsonBody([type |-> "object", id |-> store[CHOOSE i \in at : TRUE].id,
                                 valid_to |-> validTo])]

\* GET /api/temporal/compare: the set difference of the facts of the subject
\* valid at time1 and at time2; a fact that left and a fact that came with
\* the same predicate and another object are a change
diffFacts(store, params) ==
    LET before == factsAt(store, params.subject, params.time1)
        after == factsAt(store, params.subject, params.time2)
        left == SelectSeq(before, LAMBDA f : f.id \notin idsOf(after))
        came == SelectSeq(after, LAMBDA f : f.id \notin idsOf(before))
        replaces(a, b) == a.predicate = b.predicate /\ a.object # b.object
        successors(b) == SelectSeq(came, LAMBDA a : replaces(a, b))
        replaced == SelectSeq(left, LAMBDA b : successors(b) # <<>>)
        changed == [i \in 1..Len(replaced) |->
                       [before |-> replaced[i], after |-> Head(successors(replaced[i]))]]
        afters == {changed[i].after.id : i \in 1..Len(changed)}
    IN  [store |-> store,
         resp |-> JsonBody([type |-> "object", subject |-> params.subject,
                            time1 |-> params.time1, time2 |-> params.time2,
                            added |-> SelectSeq(came, LAMBDA f : f.id \notin afters),
                            removed |-> SelectSeq(left, LAMBDA b : successors(b) = <<>>),
                            changed |-> changed,
                            unchanged |-> SelectSeq(before, LAMBDA f : f.id \in idsOf(after))])]

\* the backend serves one request at instant t: the store after it and the response
temporalBackend(store, req, t) ==
    CASE req.verb = "POST" /\ req.path = "/api/temporal/fact" -> storeFact(store, req.body, t)
      [] req.verb = "DELETE" -> closeFact(store, req.path, req.body, t)
      [] req.verb = "GET" /\ req.path = "/api/temporal/compare" -> diffFacts(store, req.params)
      [] OTHER -> [store |-> store, resp |-> HttpFailure(404, "")]

\* one call of a temporal method: the request goes out, the backend serves it
\* or is down, and the method returns
FactCall(method, input, up) ==
    LET served == temporalBackend(factStore, requestOf(method, input), now)
        resp == IF up THEN served.resp ELSE HttpFailure(500, "boom")
        result == return(method, input, resp)
    IN  /\ factStore' = IF up THEN served.store ELSE factStore
        /\ factOp' = [method |-> method, input |-> input]
        /\ factResult' = result
        /\ factCreated' = IF method = "createTemporalFact" /\ result.success
                          THEN Append(factCreated, Opt(result, "id", "id") @@ input)
                          ELSE factCreated
        /\ UNCHANGED <<CONFIG, now, nonFactVars>>

createTemporalFact(input, up) ==
    /\ Len(factStore) < MaxFacts
    /\ FactCall("createTemporalFact", input, up)

invalidateFact(input, up) == FactCall("invalidateFact", input, up)

compareFacts(input, up) == FactCall("compareFacts", input, up)

\* the clock of the backend moves on
FactTick ==
    /\ now + TickMs \in Instants
    /\ now' = now + TickMs
    /\ UNCHANGED <<CONFIG, factVars, nonFactVars>>

Subjects == {"repo", "ci"}
CreateInputs ==
    {[subject |-> "repo", predicate |-> "uses", object |-> "pnpm"],
     [subject |-> "repo", predicate |-> "uses", object |-> "yarn"],
     [subject |-> "ci", predicate |-> "uses", object |-> "pnpm"]}
InvalidateInputs ==
    {[id |-> "f" \o ToString(n)] : n \in 1..MaxFacts}
    \cup {[id |-> "f1", validTo |-> 0]}
CompareInputs ==
    {[subject |-> s, time1 |-> t1, time2 |-> t2] : s \in Subjects, t1, t2 \in Instants}

InitTemporal ==
    /\ CONFIG = DefaultConfig
    /\ now = 0
    /\ RestIdle
    /\ ToolIdle
    /\ ClientIdle
    /\ ChatIdle
    /\ FormatIdle
    /\ ScopeIdle
    /\ FactIdle
    /\ IdentityIdle

NextTemporal ==
    \/ \E input \in CreateInputs, up \in BOOLEAN : createTemporalFact(input, up)
    \/ \E input \in InvalidateInputs, up \in BOOLEAN : invalidateFact(input, up)
    \/ \E input \in CompareInputs, up \in BOOLEAN : compareFacts(input, up)
    \/ FactTick

SpecTemporal == InitTemporal /\ [][NextTemporal]_vars

----------------------------------------------------------------------------
(* client.ts: the client every operation goes through *)

BackendTypes == {"openmemory", "openmemory-rest"}
getBackendType == CONFIG.backend

\* new OpenMemoryRESTClient(): the instance the serial-th run of the constructor makes
OpenMemoryRESTClient(serial) == "OpenMemoryRESTClient#" \o ToString(serial)
RESTClients == {OpenMemoryRESTClient(serial) : serial \in 1..(MaxOps + 1)}

\* getMemoryClient, were a client built at every call
getMemoryClientBuildsAnew(instance, made) ==
    [client |-> OpenMemoryRESTClient(made + 1),
     clientInstance |-> OpenMemoryRESTClient(made + 1),
     constructed |-> made + 1]

\* getMemoryClient(): the client it returns, the instance it leaves memoized and
\* the runs of the constructor so far
getMemoryClient(instance, made) ==
    IF instance = "null"
    THEN [client |-> OpenMemoryRESTClient(made + 1),
          clientInstance |-> OpenMemoryRESTClient(made + 1),
          constructed |-> made + 1]
    ELSE [client |-> instance, clientInstance |-> instance, constructed |-> made]

\* the transport a client sends its requests over
transportOf(client) == IF client \in RESTClients THEN "REST" ELSE "tool-call"

\* the plugin starts: it takes the client and looks whether it is the MCP one
PluginInit ==
    /\ clientInstance = "null"
    /\ LET got == getMemoryClient(clientInstance, constructed)
       IN  /\ clientInstance' = got.clientInstance
           /\ constructed' = got.constructed
    /\ UNCHANGED <<CONFIG, now, caller, opLog, nonClientVars>>

\* openMemoryClient.<method>(...): getMemoryClient().<method>(...)
ClientOp(method) ==
    /\ Len(opLog) < MaxOps
    /\ LET got == getMemoryClient(clientInstance, constructed)
       IN  /\ clientInstance' = got.clientInstance
           /\ constructed' = got.constructed
           /\ opLog' = Append(opLog, [method |-> method,
                                      client |-> got.client,
                                      transport |-> transportOf(got.client),
                                      caller |-> caller])
    /\ UNCHANGED <<CONFIG, now, caller, nonClientVars>>

\* the host hands over its tool-call dispatcher
setCaller ==
    /\ caller = "null"
    /\ caller' = "dispatcher"
    /\ UNCHANGED <<CONFIG, now, clientInstance, constructed, opLog, nonClientVars>>

InitClient ==
    /\ CONFIG \in {[DefaultConfig EXCEPT !.backend = b] : b \in BackendTypes}
    /\ now = 0
    /\ RestIdle
    /\ ToolIdle
    /\ ClientIdle
    /\ ChatIdle
    /\ FormatIdle
    /\ ScopeIdle
    /\ FactIdle
    /\ IdentityIdle

NextClient ==
    \/ PluginInit
    \/ \E method \in Methods : ClientOp(method)
    \/ setCaller

SpecClient == InitClient /\ [][NextClient]_vars

----------------------------------------------------------------------------
(* Claims about the chat.message hook *)

\* C1: however the handlers of a session's messages interleave, the retrieval
\* is issued and the context is injected at most once per session while the
\* plugin lives, and a session is in the guard set exactly when its retrieval
\* has been issued; after a restart the set is empty again, so the next first
\* turn of a session retrieves anew.
C1_InjectedOncePerSession ==
    \A s \in Sessions :
        /\ retrievals[s] <= 1
        /\ injections[s] <= retrievals[s]
        /\ s \in injectedSessions <=> retrievals[s] = 1

\* after a restart a session that was injected before has its retrieval under
\* way again, and a second message of it, handled meanwhile, returned without one
C1_Witness ==
    /\ restarts = 1
    /\ "s1" \in injectedBefore
    /\ retrievals["s1"] = 1
    /\ \E i \in 1..Len(chatAwaiting) : chatAwaiting[i].sessionID = "s1"
    /\ chatReturned.sessionID = "s1"
    /\ chatReturned.input = <<TextPart(PlainText)>>
    /\ chatReturned.results = <<>>

\* the sessions with a handler suspended at its Promise.all
AwaitingSessions == {chatAwaiting[i].sessionID : i \in 1..Len(chatAwaiting)}
\* a handler returned without having awaited anything
ReturnedAtOnce == chatReturned # NoFrame /\ chatReturned.results = <<>>
SameProcess == restarts' = restarts

\* C26: a session is in the injected set from before its three retrievals are
\* awaited and is never taken out of it while the process lives: whatever the
\* retrievals bring (failures, an empty context), the session stays in the set,
\* no later message of it retrieves or injects again, and the set only grows.
C26_InjectedSetOnlyGrows ==
    /\ [](/\ AwaitingSessions \subseteq injectedSessions
          /\ (chatReturned # NoFrame /\ chatReturned.results # <<>>)
                => chatReturned.sessionID \in injectedSessions)
    /\ [][SameProcess =>
            /\ injectedSessions \subseteq injectedSessions'
            /\ \A s \in injectedSessions :
                  /\ retrievals'[s] = retrievals[s]
                  /\ s \in AwaitingSessions' => s \in AwaitingSessions
                  /\ injections'[s] > injections[s] => s \in AwaitingSessions]_vars

\* the three retrievals of a session failed and nothing was injected; a later
\* message of it with text has returned at once, without a retrieval
C26_Witness ==
    /\ "s1" \in injectedSessions
    /\ retrievals["s1"] = 1
    /\ injections["s1"] = 0
    /\ "s1" \notin AwaitingSessions
    /\ ReturnedAtOnce
    /\ chatReturned.sessionID = "s1"
    /\ chatReturned.input = <<TextPart(PlainText)>>
    /\ chatReturned.parts = chatReturned.input

\* none of the parts is a text part with anything but blanks in it
Wordless(parts) ==
    \A i \in 1..Len(parts) :
        parts[i].type = "text" =>
            \A j \in 1..Len(parts[i].text) :
                ~parts[i].text[j].code /\ parts[i].text[j].text \in Whitespace
\* the step in which the handler of a message returns without an await
ReturnsAtOnce == chatReturned = NoFrame /\ chatReturned' # NoFrame /\ chatReturned'.results = <<>>
\* the step in which the handler of a message issues its retrievals
Retrieves == Len(chatAwaiting') > Len(chatAwaiting)

\* C27: the handler of a message without a text part, or whose joined text is
\* blank, returns without a backend call, leaves the parts as they were and does
\* not mark the session; a message that has text returns without a retrieval
\* only if its session was marked before, so the first message with text after
\* blank ones still retrieves.
C27_BlankMessageLeavesNoTrace ==
    [][/\ Retrieves => ~Wordless(chatAwaiting'[Len(chatAwaiting')].input)
       /\ (ReturnsAtOnce /\ Wordless(chatReturned'.input)) =>
              /\ chatReturned'.parts = chatReturned'.input
              /\ injectedSessions' = injectedSessions
              /\ retrievals' = retrievals
              /\ chatAwaiting' = chatAwaiting
       /\ (ReturnsAtOnce /\ ~Wordless(chatReturned'.input)) =>
              chatReturned'.sessionID \in injectedSessions]_vars

\* a blank message of a session has returned untouched while the retrieval of
\* another session is under way: the session is not marked
C27_Witness ==
    /\ ReturnedAtOnce
    /\ chatReturned.sessionID = "s1"
    /\ chatReturned.input = <<TextPart(BlankText)>>
    /\ chatReturned.parts = chatReturned.input
    /\ injectedSessions = {"s2"}
    /\ AwaitingSessions = {"s2"}
    /\ retrievals["s1"] = 0

IsContextPart(p) == Has(p, "synthetic") /\ p.text # <<>> /\ p.text[1] = ContextMarker
IsNudgePart(p) == Has(p, "synthetic") /\ p.text = MEMORY_NUDGE_MESSAGE
\* parts is input with at most one context part before it and at most one
\* nudge part behind it
OnlyAdded(parts, input, front) ==
    \E pre \in front, post \in {0, 1} :
        /\ Len(parts) = pre + Len(input) + post
        /\ SubSeq(parts, pre + 1, pre + Len(input)) = input
        /\ pre = 1 => IsContextPart(parts[1])
        /\ post = 1 => IsNudgePart(parts[Len(parts)])

\* C28: the handler only adds parts: when it returns, and while it awaits its
\* retrievals, the parts are the parts of the message in their order, with at
\* most one context part put in front of them (only on return) and at most
\* one nudge part put behind them.
C28_PartsOnlyAdded ==
    /\ chatReturned # NoFrame => OnlyAdded(chatReturned.parts, chatReturned.input, {0, 1})
    /\ \A i \in 1..Len(chatAwaiting) :
          OnlyAdded(chatAwaiting[i].parts, chatAwaiting[i].input, {0})

\* a message of a file part and a text with a keyword got both: the context
\* part in front, the nudge part behind
C28_Witness ==
    /\ chatReturned # NoFrame
    /\ chatReturned.input = <<FilePart, TextPart(KeywordText)>>
    /\ Len(chatReturned.parts) = 4
    /\ IsContextPart(chatReturned.parts[1])
    /\ chatReturned.parts[2] = FilePart
    /\ chatReturned.parts[3] = TextPart(KeywordText)
    /\ IsNudgePart(chatReturned.parts[4])

FirstTurnReturned == chatReturned # NoFrame /\ chatReturned.results # <<>>
\* the lines of the context part the handler prepended, none if it did not
ContextLines ==
    IF /\ Len(chatReturned.parts) > 0
       /\ Has(chatReturned.parts[1], "synthetic")
       /\ chatReturned.parts[1].text[1] = ContextMarker
    THEN chatReturned.parts[1].text
    ELSE <<>>
LinesOf(text) == {text[i] : i \in 1..Len(text)}
Last(line) == line[Len(line)]
Shown(content) == \E line \in LinesOf(ContextLines) : line[1] = "- " /\ Last(line) = content
\* what a slot brought: nothing when its call failed
ProfileFacts ==
    IF chatReturned.results[1].success /\ CONFIG.injectProfile
    THEN Take(chatReturned.results[1].profile.static, CONFIG.maxProfileItems)
         \o Take(chatReturned.results[1].profile.dynamic, CONFIG.maxProfileItems)
    ELSE <<>>
ProfileHeaders ==
    IF chatReturned.results[1].success /\ CONFIG.injectProfile
    THEN {h \in {ProfileHeader} : chatReturned.results[1].profile.static # <<>>}
         \cup {h \in {RecentHeader} : chatReturned.results[1].profile.dynamic # <<>>}
    ELSE {}
UserFound ==
    IF chatReturned.results[2].success THEN chatReturned.results[2].results ELSE <<>>
ProjectFound ==
    IF chatReturned.results[3].success THEN chatReturned.results[3].memories ELSE <<>>
Section(n) == IF n > 0 THEN n + 1 ELSE 0

\* C2: whichever of the three first-turn calls (profile, user search, project
\* list) fail, what the others returned is formatted and prepended as the
\* context part: every item of a call that succeeded has its line under its
\* section (the profile when injectProfile is on), a call that failed brings
\* no section and no line, and no error text of a failed call is in the context.
C2_FanOutDegradesPerSlot ==
    FirstTurnReturned =>
        /\ \A i \in 1..Len(ProfileFacts) : Shown(ProfileFacts[i])
        /\ \A i \in 1..Len(UserFound) : Shown(UserFound[i].content)
        /\ \A i \in 1..Len(ProjectFound) : Shown(ProjectFound[i].content)
        /\ \A h \in {ProfileHeader, RecentHeader} :
              h \in LinesOf(ContextLines) <=> h \in ProfileHeaders
        /\ MemoriesHeader \in LinesOf(ContextLines) <=> UserFound # <<>>
        /\ ProjectHeader \in LinesOf(ContextLines) <=> ProjectFound # <<>>
        /\ Len(ContextLines) =
              IF ProfileFacts = <<>> /\ UserFound = <<>> /\ ProjectFound = <<>> THEN 0
              ELSE 1 + Len(ProfileFacts) + Cardinality(ProfileHeaders)
                     + Section(Len(UserFound)) + Section(Len(ProjectFound))
        /\ \A k \in 1..3 :
              ~chatReturned.results[k].success =>
                  \A line \in LinesOf(ContextLines) :
                      \A j \in 1..Len(line) : line[j] # chatReturned.results[k].error
        /\ chatReturned.parts =
              (IF ContextLines = <<>> THEN <<>> ELSE <<chatReturned.parts[1]>>)
              \o chatMessageStart({}, chatReturned.sessionID, chatReturned.input).parts

\* the user search timed out; the profile and the project list came back and
\* are in the context, the search section is not
C2_Witness ==
    /\ FirstTurnReturned
    /\ CONFIG.injectProfile
    /\ chatReturned.results[2] = failure("searchMemories", NoFields, TimeoutMessage)
    /\ chatReturned.results[1].success /\ chatReturned.results[3].success
    /\ ContextLines = <<ContextMarker, RecentHeader, <<"- ", "uses pnpm">>,
                        ProjectHeader, <<"- ", "[82%]", " ", "monorepo">>>>

----------------------------------------------------------------------------
(* Claims about the profile lists and the context block *)

SectionHeaders == {ProfileHeader, RecentHeader, ProjectHeader, MemoriesHeader}
\* the lines of fmtText under a header, up to the next header
SectionOf(header) ==
    IF \A i \in 1..Len(fmtText) : fmtText[i] # header THEN <<>>
    ELSE LET p == CHOOSE i \in 1..Len(fmtText) : fmtText[i] = header
             later == {i \in (p + 1)..Len(fmtText) : fmtText[i] \in SectionHeaders}
             q == IF later = {} THEN Len(fmtText) + 1
                  ELSE CHOOSE i \in later : \A j \in later : i <= j
         IN  SubSeq(fmtText, p + 1, q - 1)
\* the contents of the matches of the retrieval, in the order of the ranking
RetrievedContents ==
    IF fmtRetrieval.kind = "json" /\ Has(fmtRetrieval.data, "matches")
    THEN [i \in 1..Len(fmtRetrieval.data.matches) |-> fmtRetrieval.data.matches[i].content]
    ELSE <<>>
RECURSIVE IsSubseq(_, _)
IsSubseq(a, b) ==
    IF a = <<>> THEN TRUE
    ELSE IF b = <<>> THEN FALSE
    ELSE IF Head(a) = Head(b) THEN IsSubseq(Tail(a), Tail(b))
    ELSE IsSubseq(a, Tail(b))

\* C11: whatever the retrieval returned and whatever the cap maxProfileItems,
\* the static and the dynamic list of getProfile each have at most
\* maxProfileItems entries, in the order of the retrieval ranking, and the
\* formatter prints at most maxProfileItems lines under "User Profile" and
\* under "Recent Context".
C11_ProfileListsCapped ==
    /\ (fmtPc # "idle" /\ fmtRetrieval.kind # "pending" /\ Has(fmtArgs.profile, "profile"))
          => \A f \in {"static", "dynamic"} :
                /\ Len(fmtArgs.profile.profile[f]) <= CONFIG.maxProfileItems
                /\ IsSubseq(fmtArgs.profile.profile[f], RetrievedContents)
    /\ fmtPc = "done"
          => /\ Len(SectionOf(ProfileHeader)) <= CONFIG.maxProfileItems
             /\ Len(SectionOf(RecentHeader)) <= CONFIG.maxProfileItems

\* the retrieval ranked two memories and the cap is 1: the list holds the
\* first of them and one line is printed
C11_Witness ==
    /\ fmtPc = "done"
    /\ CONFIG.maxProfileItems = 1 /\ CONFIG.injectProfile
    /\ Len(RetrievedContents) = 2
    /\ RetrievedContents[1] # RetrievedContents[2]
    /\ Has(fmtArgs.profile, "profile")
    /\ fmtArgs.profile.profile.dynamic = <<RetrievedContents[1]>>
    /\ SectionOf(RecentHeader) = <<factLine(RetrievedContents[1])>>

\* the first-turn mapping of a project listing has run
ListingMapped == fmtPc = "done" /\ Has(fmtArgs, "listing")
Ranked(i) == fmtArgs.projectMemories.results[i]
CarriedOver(i) ==
    /\ Len(fmtArgs.projectMemories.results) = Len(fmtArgs.listing)
    /\ DOMAIN Ranked(i) = {"score"} \cup (DOMAIN fmtArgs.listing[i]
                                           \cap {"id", "content", "salience", "sector",
                                                 "tags", "metadata"})
    /\ \A f \in DOMAIN Ranked(i) \ {"score"} : Ranked(i)[f] = fmtArgs.listing[i][f]

\* C23 as the specification states it: each listed item is mapped to the
\* ranked shape with its salience as the score, and its id, content, salience,
\* sector, tags and metadata carried over.
C23_SalienceIsTheScore ==
    ListingMapped =>
        \A i \in 1..Len(fmtArgs.listing) :
            /\ CarriedOver(i)
            /\ Has(fmtArgs.listing[i], "salience") => Ranked(i).score = fmtArgs.listing[i].salience

\* C30: in first-turn injection every listed item gets a score other than 0,
\* its salience, or 1 when the salience is missing or 0, so its line under
\* "Project Knowledge" carries the annotation [N%] of that score, never the
\* "sal:" form and never none.
C30_ProjectLinesCarryRelevance ==
    ListingMapped =>
        \A i \in 1..Len(fmtArgs.listing) :
            /\ Ranked(i).score # 0
            /\ Ranked(i).score = IF Has(fmtArgs.listing[i], "salience")
                                    /\ fmtArgs.listing[i].salience # 0
                                 THEN fmtArgs.listing[i].salience ELSE ScoreScale
            /\ SectionOf(ProjectHeader)[i]
                  = <<"- ", "[" \o ToString(RoundPct(Ranked(i).score)) \o "%]", " ",
                      fmtArgs.listing[i].content>>

\* an item of salience 0 and an item of salience 0.004 were listed: their
\* lines read [100%] and [0%]
C30_Witness ==
    /\ ListingMapped
    /\ Len(fmtArgs.listing) = 2
    /\ fmtArgs.listing[1].id = "i2" /\ fmtArgs.listing[1].salience = 0
    /\ fmtArgs.listing[2].id = "i4"
    /\ SectionOf(ProjectHeader) = <<<<"- ", "[100%]", " ", "node 20">>,
                                    <<"- ", "[0%]", " ", "old note">>>>

----------------------------------------------------------------------------
(* Claims about the scope identifiers *)

\* C12: getScopeUserId is injective over the scopes of the plugin: two scopes
\* with the same composed identifier are the same scope, so a user scope and a
\* project scope, two projects of one user, and two users never share one.
C12_ScopeIdsInjective ==
    scopeIds # <<>> =>
        (scopeIds[1].user_id = scopeIds[2].user_id => scopeIds[1].scope = scopeIds[2].scope)

\* the scope of a user and the scope of a project of theirs whose id is that
\* of the user have different identifiers
C12_Witness ==
    /\ scopeIds # <<>>
    /\ scopeIds[1].scope = [userId |-> "00000000000000a1"]
    /\ scopeIds[2].scope = [userId |-> "00000000000000a1", projectId |-> "00000000000000a1"]
    /\ scopeIds[1].user_id = "opencode:00000000000000a1"
    /\ scopeIds[2].user_id = "opencode:00000000000000a1:00000000000000a1"

\* every percentage annotation a line can carry
Annotations ==
    {"[" \o ToString(n) \o "%]" : n \in 0..100}
    \cup {"[sal:" \o ToString(n) \o "%]" : n \in 0..100}
AnnotationsOf(line) == {line[j] : j \in 1..Len(line)} \cap Annotations
\* the annotation an item is to carry: its score if it has one, else its salience
AnnotationFor(mem) ==
    IF Has(mem, "score") THEN {"[" \o ToString(RoundPct(mem.score)) \o "%]"}
    ELSE IF Has(mem, "salience") THEN {"[sal:" \o ToString(RoundPct(mem.salience)) \o "%]"}
    ELSE {}

\* C14: the line of every item given to formatContextForPrompt carries
\* [round(score*100)%] if the item has a score, else [sal:round(salience*100)%]
\* if it has a salience, else no percentage; for every score and salience
\* from 0 to 1, 0 included.
C14_LineAnnotatedByScoreThenSalience ==
    fmtPc = "done" =>
        /\ \A i \in 1..Len(fmtArgs.projectMemories.results) :
              AnnotationsOf(SectionOf(ProjectHeader)[i])
                  = AnnotationFor(fmtArgs.projectMemories.results[i])
        /\ \A i \in 1..Len(fmtArgs.userMemories.results) :
              AnnotationsOf(SectionOf(MemoriesHeader)[i])
                  = AnnotationFor(fmtArgs.userMemories.results[i])

\* the sections formatContextForPrompt has something to print under
SectionsDue ==
    (IF CONFIG.injectProfile /\ Has(fmtArgs.profile, "profile")
     THEN {h \in {ProfileHeader} : fmtArgs.profile.profile.static # <<>>}
          \cup {h \in {RecentHeader} : fmtArgs.profile.profile.dynamic # <<>>}
     ELSE {})
    \cup {h \in {ProjectHeader} : fmtArgs.projectMemories.results # <<>>}
    \cup {h \in {MemoriesHeader} : fmtArgs.userMemories.results # <<>>}

\* C15: formatContextForPrompt returns the empty string exactly when it has
\* no section to print (no profile fact to show, no project item, no user
\* item), and then the handler adds no part to the message; when it has a
\* section, the text starts with the marker, holds exactly the sections due,
\* and is put before the parts of the message.
C15_EmptyContextIffNoSection ==
    fmtPc = "done" =>
        /\ fmtText = <<>> <=> SectionsDue = {}
        /\ fmtText = <<>> => fmtParts = fmtArgs.parts
        /\ fmtText # <<>> =>
              /\ fmtText[1] = ContextMarker
              /\ {fmtText[i] : i \in 1..Len(fmtText)} \cap SectionHeaders = SectionsDue
              /\ \A h \in SectionsDue : SectionOf(h) # <<>>
              /\ Len(fmtParts) = Len(fmtArgs.parts) + 1
              /\ fmtParts[1].text = fmtText /\ fmtParts[1].synthetic
              /\ Tail(fmtParts) = fmtArgs.parts

\* a profile is at hand but injectProfile is off and no memory was found:
\* nothing is returned and the message keeps its parts
C15_Witness ==
    /\ fmtPc = "done"
    /\ ~CONFIG.injectProfile
    /\ Has(fmtArgs.profile, "profile") /\ fmtArgs.profile.profile.dynamic # <<>>
    /\ fmtArgs.projectMemories.results = <<>> /\ fmtArgs.userMemories.results = <<>>
    /\ fmtText = <<>>
    /\ fmtParts = <<TextPart(PlainText)>>

----------------------------------------------------------------------------
(* Claims about the openmemory tool *)

SearchedBoth == toolPc = "done" /\ modeOf(toolArgs) = "search" /\ Len(toolCalls) = 2
BranchFailed(i) == ~toolResults[i].success

\* C3: when a search without a scope has fanned out to the user and the project
\* scope and either branch failed, the tool returns a failure envelope and no
\* results, never the results of the branch that succeeded.
C3_DualSearchFailsWhole ==
    (SearchedBoth /\ (BranchFailed(1) \/ BranchFailed(2)))
        => /\ toolReturn.success = FALSE
           /\ Has(toolReturn, "error") /\ toolReturn.error \in STRING
           /\ ~Has(toolReturn, "results")

\* the user branch found memories, the project branch failed, the tool failed
C3_Witness ==
    /\ SearchedBoth
    /\ ~BranchFailed(1) /\ Len(toolResults[1].results) > 0
    /\ BranchFailed(2)
    /\ toolReturn = fail(toolResults[2].error)

\* the results of the two branches in arrival order, the user scope first
Merged ==
    [i \in 1..Len(toolResults[1].results) |-> [scope |-> "user"] @@ toolResults[1].results[i]]
    \o [i \in 1..Len(toolResults[2].results) |->
            [scope |-> "project"] @@ toolResults[2].results[i]]
\* result j is listed before result i: a higher score, or the same score and
\* an earlier arrival
Ahead(j, i) ==
    \/ Merged[j].score > Merged[i].score
    \/ Merged[j].score = Merged[i].score /\ j < i
Rank(i) == Cardinality({j \in 1..Len(Merged) : Ahead(j, i)}) + 1
Min(a, b) == IF a < b THEN a ELSE b
\* the returned results are the first lim of the union in that order
ReturnsFirst(lim) ==
    /\ toolReturn.success = TRUE
    /\ Len(toolReturn.results) = Min(lim, Len(Merged))
    /\ \A i \in 1..Len(Merged) :
          Rank(i) <= lim => toolReturn.results[Rank(i)] = searchEntry(Merged[i])

\* C4 as the specification states it: the union, by score descending with ties
\* in arrival order, cut to the requested limit, or to 10 when no limit is given.
C4_TruncatesToRequestedLimit ==
    (SearchedBoth /\ ~BranchFailed(1) /\ ~BranchFailed(2))
        => ReturnsFirst(IF Has(toolArgs, "limit") THEN toolArgs.limit ELSE 10)

\* C4: when both branches of a search without a scope succeed, the returned
\* results are the union of the two result lists sorted by score descending,
\* equal scores in arrival order (user before project), cut to the requested
\* limit when that is a positive number and to 10 when no limit or a limit of
\* 0 is given.
C4_MergedSortedTruncated ==
    (SearchedBoth /\ ~BranchFailed(1) /\ ~BranchFailed(2))
        => ReturnsFirst(IF Has(toolArgs, "limit") /\ toolArgs.limit > 0
                        THEN toolArgs.limit ELSE 10)

\* twelve results without a limit are cut to ten; a project result at 0.95 is
\* listed before a user result at 0.9, and of two results at 0.95 the user's
\* comes first
C4_Witness ==
    /\ SearchedBoth /\ ~BranchFailed(1) /\ ~BranchFailed(2)
    /\ ~Has(toolArgs, "limit")
    /\ Len(Merged) > 10 /\ Len(toolReturn.results) = 10
    /\ \E k, l \in 1..Len(toolReturn.results) :
          /\ k < l
          /\ toolReturn.results[k].scope = "project" /\ toolReturn.results[k].score = 95
          /\ toolReturn.results[l].scope = "user" /\ toolReturn.results[l].score = 90
    /\ \E k, l \in 1..Len(toolReturn.results) :
          /\ k < l
          /\ toolReturn.results[k].scope = "user" /\ toolReturn.results[k].score = 95
          /\ toolReturn.results[l].scope = "project" /\ toolReturn.results[l].score = 95

\* a search, in one scope or in both, has returned its results
SearchSucceeded ==
    /\ toolPc = "done"
    /\ modeOf(toolArgs) = "search"
    /\ toolResults # <<>>
    /\ toolReturn.success = TRUE
\* how many results the client calls of the search brought
Found ==
    LET brought(i) == IF Has(toolResults[i], "results") THEN Len(toolResults[i].results) ELSE 0
    IN  IF Len(toolResults) = 2 THEN brought(1) + brought(2) ELSE brought(1)

\* C29: a successful search response, of one scope or of both, has at most as
\* many results as the requested limit (10 when no limit or a limit of 0 is
\* given) and at most as many as its count, which is the number of results
\* the retrieval brought, before the cut.
C29_ResultsWithinLimitAndCount ==
    SearchSucceeded =>
        /\ Len(toolReturn.results) <= IF Has(toolArgs, "limit") /\ toolArgs.limit # 0
                                      THEN toolArgs.limit ELSE 10
        /\ Len(toolReturn.results) <= toolReturn.count
        /\ toolReturn.count = Found

\* a search of the user scope with a limit of 3 found six results and
\* returned three of them with a count of six
C29_Witness ==
    /\ SearchSucceeded
    /\ Len(toolResults) = 1
    /\ Has(toolArgs, "scope") /\ toolArgs.scope = "user"
    /\ Has(toolArgs, "limit") /\ toolArgs.limit = 3
    /\ toolReturn.count = 6
    /\ Len(toolReturn.results) = 3

AddRequested ==
    /\ toolPc \in {"await", "done"}
    /\ modeOf(toolArgs) = "add"
    /\ Has(toolArgs, "content") /\ toolArgs.content # <<>>
\* the payload has a private span and nothing else but blanks
WhollyPrivate(content) ==
    /\ \E i \in 1..Len(content) : content[i].private
    /\ \A i \in 1..Len(content) : content[i].private \/ content[i] = BlankSpan

\* C7: an add whose payload is wholly private issues no addMemory call and
\* returns a failure; any other add passes to addMemory the payload with every
\* private span replaced by the redaction marker, never a private span itself.
C7_PrivateContentNeverStored ==
    AddRequested =>
        IF WhollyPrivate(toolArgs.content)
        THEN toolCalls = <<>> /\ toolPc = "done" /\ toolReturn.success = FALSE
        ELSE /\ Len(toolCalls) = 1
             /\ toolCalls[1].method = "addMemory"
             /\ LET passed == toolCalls[1].input.content
                IN  /\ Len(passed) = Len(toolArgs.content)
                    /\ \A i \in 1..Len(passed) :
                          /\ ~passed[i].private
                          /\ passed[i].text # PrivateSpan.text
                          /\ passed[i] = IF toolArgs.content[i].private THEN RedactedSpan
                                         ELSE toolArgs.content[i]

\* a payload with a public and a private span was stored redacted
C7_Witness ==
    /\ toolPc = "done"
    /\ AddRequested
    /\ toolArgs.content = <<PublicSpan, PrivateSpan>>
    /\ Len(toolCalls) = 1
    /\ toolCalls[1].input.content = <<PublicSpan, RedactedSpan>>
    /\ toolReturn.success = TRUE

\* the call in hand is one of add, search, forget, reinforce without the
\* argument the command requires, or with an empty one
Lacks(f, empty) == ~Has(toolArgs, f) \/ toolArgs[f] = empty
RequiredArgMissing ==
    /\ toolPc # "idle"
    /\ Has(toolArgs, "mode")
    /\ \/ toolArgs.mode = "add" /\ Lacks("content", <<>>)
       \/ toolArgs.mode = "search" /\ Lacks("query", "")
       \/ toolArgs.mode \in {"forget", "reinforce"} /\ Lacks("memoryId", "")

\* C19: an add without content, a search without query, a forget or a
\* reinforce without memoryId (the argument missing or empty) returns at once
\* a failure envelope naming the argument, and no call of the client is made.
C19_MissingArgumentFailsBeforeAnyCall ==
    RequiredArgMissing =>
        /\ toolPc = "done"
        /\ toolCalls = <<>> /\ toolResults = <<>>
        /\ toolReturn = fail((CASE toolArgs.mode = "add" -> "content"
                                [] toolArgs.mode = "search" -> "query"
                                [] OTHER -> "memoryId")
                             \o " parameter is required for " \o toolArgs.mode \o " mode")

\* a search with an empty query has returned a failure without a call
C19_Witness ==
    /\ toolPc = "done"
    /\ Has(toolArgs, "mode") /\ toolArgs.mode = "search"
    /\ Has(toolArgs, "query") /\ toolArgs.query = ""
    /\ toolCalls = <<>>
    /\ toolReturn.success = FALSE

IsEnvelope(e) ==
    /\ Has(e, "success")
    /\ e.success \in BOOLEAN
    /\ (~e.success => Has(e, "error") /\ e.error \in STRING)

KnownModes == {"help", "add", "search", "profile", "list", "forget", "reinforce"}
UnknownMode == Has(toolArgs, "mode") /\ toolArgs.mode \notin KnownModes \cup {""}

\* C20: whatever the mode (known, unknown, empty or absent), the arguments and
\* the answers of the backend (a timeout, a non-2xx status, any body), execute
\* ends by returning an object with a boolean success and, when success is
\* false, an error string; no client call is ever made for an unknown mode,
\* which is answered with the failure "Unknown mode: <mode>"; a call without a
\* mode is answered with the usage guide.
C20_ExecuteAlwaysReturnsEnvelope ==
    /\ toolPc \in {"idle", "await", "done"}
    /\ toolPc = "done" => IsEnvelope(toolReturn)
    /\ (toolPc # "idle" /\ UnknownMode) =>
          /\ toolPc = "done"
          /\ toolCalls = <<>> /\ toolResults = <<>>
          /\ toolReturn = fail("Unknown mode: " \o toolArgs.mode)
    /\ (toolPc # "idle" /\ modeOf(toolArgs) = "help") =>
          toolPc = "done" /\ toolCalls = <<>> /\ toolReturn = helpReturn

\* an unknown mode, given with the argument of a known one, has been refused
C20_Witness ==
    /\ toolPc = "done"
    /\ toolArgs = [mode |-> "bogus", query |-> "deploy steps"]
    /\ toolCalls = <<>>
    /\ toolReturn = [success |-> FALSE, error |-> "Unknown mode: bogus"]

----------------------------------------------------------------------------
(* Claims about the REST client *)

\* C5: a call of a REST client method that is still pending (waiting for the
\* response or for its body) has been pending for at most the 30 seconds of
\* TIMEOUT_MS: past that it has resolved, so no call waits forever.
C5_NoCallPendingPastTimeout ==
    restPc \in {"fetch", "body"} => now - restStart <= TIMEOUT_MS

\* C6: whatever the backend does (connection failure, non-2xx status, timeout,
\* malformed or null body), every method of the REST client returns an
\* envelope with a boolean success and, when success is false, an error string;
\* nothing is thrown to the caller.
C6_EveryMethodReturnsEnvelope ==
    restPc = "done" => IsEnvelope(restResult)

\* a temporal method has returned a failure envelope for a body that is not JSON
C6_Witness ==
    /\ restPc = "done"
    /\ restOp.method = "compareFacts"
    /\ restResp = Thrown(SyntaxErrorMessage)
    /\ restResult.success = FALSE
    /\ restResult.error = SyntaxErrorMessage

\* C9: getProfile puts a match of the backend in static iff the memory was
\* created more than 7 days before the evaluation time, and in dynamic otherwise
\* (also when it has no creation time), each list in retrieval order and cut to
\* maxProfileItems.
C9_ProfileSplitsByAge ==
    (restPc = "done" /\ restOp.method = "getProfile" /\ restResult.success) =>
        LET matches == IF Has(restResp.data, "matches") THEN restResp.data.matches ELSE <<>>
            old(m) == Has(m, "created_at") /\ m.created_at * 1000 < DateNow - 7 * DayMs
            recent(m) == ~old(m)
            content(m) == m.content
        IN  /\ restResult.profile.static =
                  MapSeq(Take(Filter(matches, old), CONFIG.maxProfileItems), content)
            /\ restResult.profile.dynamic =
                  MapSeq(Take(Filter(matches, recent), CONFIG.maxProfileItems), content)

\* the retrieval behind getProfile failed
RetrievalFailed(resp) ==
    \/ resp.kind \in {"throw", "http"}
    \/ resp.kind = "json" /\ IsNull(resp.data)

RetrievalError(resp) ==
    CASE resp.kind = "throw" -> resp.message
      [] resp.kind = "http" -> HttpError(resp.status, resp.text)
      [] OTHER -> TypeErrorMessage

\* C10: when the retrieval behind getProfile fails (HTTP error, transport error,
\* timeout, unusable body), getProfile returns success false with the error of
\* that retrieval and no profile.
C10_ProfilePropagatesFailure ==
    (restPc = "done" /\ restOp.method = "getProfile" /\ RetrievalFailed(restResp)) =>
        /\ restResult.success = FALSE
        /\ restResult.error = RetrievalError(restResp)
        /\ ~Has(restResult, "profile")

\* getProfile has returned the timeout of its retrieval
C10_Witness ==
    /\ restPc = "done"
    /\ restOp.method = "getProfile"
    /\ restResp = Thrown(TimeoutMessage)
    /\ restResult = [success |-> FALSE, error |-> TimeoutMessage]

\* a call of getProfile is under way or has returned
ProfileCalled == restPc # "idle" /\ restOp.method = "getProfile"

\* C24: getProfile issues one retrieval, the search request of the call, which
\* stays the only request until the call has returned: it is made in the user
\* scope alone (the projectId of the given scope is dropped), asks for
\* 2 * maxProfileItems results, and carries the given query, or the fixed
\* default probe query when no query or an empty one was given.
C24_ProfileIsOneUserScopeRetrieval ==
    ProfileCalled =>
        restRequest =
            [verb |-> "POST", path |-> "/memory/query",
             query |-> IF Has(restOp.input, "query") /\ restOp.input.query # ""
                       THEN restOp.input.query ELSE "preferences style workflow",
             k |-> 2 * CONFIG.maxProfileItems,
             user_id |-> CONFIG.scopePrefix \o ":" \o restOp.input.scope.userId]

\* getProfile was called in a project scope with an empty query, with a cap of
\* 2 items, and has returned
C24_Witness ==
    /\ restPc = "done"
    /\ restOp = [method |-> "getProfile", input |-> [scope |-> projectScope, query |-> ""]]
    /\ CONFIG.maxProfileItems = 2
    /\ restRequest.k = 4
    /\ restRequest.query = DefaultProfileQuery
    /\ restRequest.user_id = CONFIG.scopePrefix \o ":" \o userScope.userId
    /\ restResult.success

\* the matches or items of the response and the MemoryItems made of them
Normalized ==
    IF restOp.method = "searchMemories"
    THEN [from |-> IF Has(restResp.data, "matches") THEN restResp.data.matches ELSE <<>>,
          to |-> restResult.results]
    ELSE [from |-> IF Has(restResp.data, "items") THEN restResp.data.items ELSE <<>>,
          to |-> restResult.memories]

\* C13: a MemoryItem returned by searchMemories or listMemories has a score
\* only if the match or item of the backend has one, and a salience only if
\* that has one: no number stands in for a missing score or salience.
C13_MissingScoreStaysAbsent ==
    (restPc = "done" /\ restOp.method \in {"searchMemories", "listMemories"}
        /\ restResp.kind = "json" /\ restResult.success)
        => \A i \in 1..Len(Normalized.from) :
              /\ Has(Normalized.to[i], "score") => Has(Normalized.from[i], "score")
              /\ Has(Normalized.to[i], "salience") => Has(Normalized.from[i], "salience")

MemorySectors == {"episodic", "semantic", "procedural", "emotional", "reflective"}
\* the items of the backend's response and the MemoryItems made of them
BackendItems ==
    IF restOp.method = "listMemories"
    THEN (IF Has(restResp.data, "items") THEN restResp.data.items ELSE <<>>)
    ELSE (IF Has(restResp.data, "matches") THEN restResp.data.matches ELSE <<>>)
MemoryItems == IF restOp.method = "listMemories" THEN restResult.memories ELSE restResult.results

\* C22: every MemoryItem that searchMemories or listMemories makes of a
\* backend item has a sector of the five of MemorySector, and the sector is
\* "semantic" when the backend item carries none.
C22_SectorDefaultsToSemantic ==
    (restPc = "done" /\ restOp.method \in {"searchMemories", "listMemories"}
     /\ restResult.success) =>
        \A i \in 1..Len(MemoryItems) :
            /\ Has(MemoryItems[i], "sector")
            /\ MemoryItems[i].sector \in MemorySectors
            /\ ~Has(BackendItems[i], "primary_sector") => MemoryItems[i].sector = "semantic"

\* getCurrentFact has returned
CurrentFactReturned == restPc = "done" /\ restOp.method = "getCurrentFact"
NotFound == restResp.kind = "http" /\ restResp.status = 404
TransportFailed ==
    \/ restResp.kind = "http" /\ restResp.status # 404
    \/ restResp \in {Thrown(FetchFailedMessage), Thrown(BodyAbortedMessage), Thrown(TimeoutMessage)}

\* C18 as the specification states it: success with no fact on a 404, and a
\* failure only for another HTTP status, a transport error or a timeout.
C18_FailsOnlyOnStatusTransportTimeout ==
    CurrentFactReturned =>
        /\ NotFound => restResult = [success |-> TRUE]
        /\ restResult.success = FALSE => TransportFailed

\* C18: getCurrentFact returns success: true with no fact (and no error) on a
\* 404; it returns success: false with an error string exactly for another
\* non-2xx status, a transport error, a timeout, and a 2xx response whose body
\* is not JSON or is null; every other answer is a success carrying the fact
\* of the body, if the body has one.
C18_NotFoundIsSuccess ==
    CurrentFactReturned =>
        /\ NotFound => restResult = [success |-> TRUE]
        /\ restResult.success = FALSE <=>
              \/ TransportFailed
              \/ restResp = Thrown(SyntaxErrorMessage)
              \/ restResp = JsonBody(Null)
        /\ restResult.success = FALSE => Has(restResult, "error") /\ ~Has(restResult, "fact")
        /\ (restResp.kind = "json" /\ ~IsNull(restResp.data)) =>
              restResult = [success |-> TRUE] @@ Pick(restResp.data, {"fact"})

\* the backend has answered 404 and getCurrentFact has returned a success
C18_Witness ==
    /\ CurrentFactReturned
    /\ NotFound
    /\ restResult.success = TRUE
    /\ ~Has(restResult, "fact")

----------------------------------------------------------------------------
(* Claims about the scopes of getScopes *)

\* the identity signal of an environment: the git email, else USER, else
\* USERNAME, else "anonymous"
Signal(env) ==
    IF Has(env, "stdout") /\ \E i \in 1..Len(env.stdout) : env.stdout[i].text \notin Whitespace
    THEN <<"email", env.stdout>>
    ELSE IF Has(env, "USER") /\ env.USER # "" THEN <<"name", env.USER>>
    ELSE IF Has(env, "USERNAME") /\ env.USERNAME # "" THEN <<"name", env.USERNAME>>
    ELSE <<"name", "anonymous">>

\* C21: two calls of getScopes with the same identity signal and the same
\* directory return the same userId and projectId, whatever else the
\* environment holds and whenever they are made; the user scope has no
\* projectId, and the project scope has the userId of the user scope.
C21_ScopesDeterministic ==
    /\ \A i, j \in 1..Len(scopeCalls) :
          (Signal(scopeCalls[i].env) = Signal(scopeCalls[j].env)
           /\ scopeCalls[i].directory = scopeCalls[j].directory)
              => scopeCalls[i].scopes = scopeCalls[j].scopes
    /\ \A i \in 1..Len(scopeCalls) :
          /\ DOMAIN scopeCalls[i].scopes.user = {"userId"}
          /\ DOMAIN scopeCalls[i].scopes.project = {"userId", "projectId"}
          /\ scopeCalls[i].scopes.project.userId = scopeCalls[i].scopes.user.userId

\* getScopes was called twice in one directory with the same git email but
\* under different login names, and returned the same scopes
C21_Witness ==
    /\ Len(scopeCalls) = 2
    /\ scopeCalls[1].env # scopeCalls[2].env
    /\ Has(scopeCalls[1].env, "USER") /\ ~Has(scopeCalls[2].env, "USER")
    /\ Signal(scopeCalls[1].env) = Signal(scopeCalls[2].env)
    /\ scopeCalls[1].directory = scopeCalls[2].directory
    /\ scopeCalls[1].scopes = scopeCalls[2].scopes
    /\ scopeCalls[1].scopes.user.userId = "aa8a6b1226018606"

----------------------------------------------------------------------------
(* Claims about the temporal facts *)

OpenFacts(subject, predicate) ==
    {i \in 1..Len(factStore) :
        /\ factStore[i].subject = subject /\ factStore[i].predicate = predicate
        /\ ~Has(factStore[i], "valid_to")}
AtMostOneOpen ==
    \A i, j \in 1..Len(factStore) :
        (i \in OpenFacts(factStore[j].subject, factStore[j].predicate)
         /\ j \in OpenFacts(factStore[j].subject, factStore[j].predicate)) => i = j
\* every fact createTemporalFact has answered for is in the store as it was asked
CreatedStillPresent ==
    \A i \in 1..Len(factCreated) :
        /\ Has(factCreated[i], "id")
        /\ \E j \in 1..Len(factStore) :
              /\ factStore[j].id = factCreated[i].id
              /\ factStore[j].subject = factCreated[i].subject
              /\ factStore[j].predicate = factCreated[i].predicate
              /\ factStore[j].object = factCreated[i].object
\* the step leaves a stored fact as it is, but for its valid_to
KeptButValidTo(i) ==
    /\ i <= Len(factStore')
    /\ DOMAIN factStore[i] \subseteq DOMAIN factStore'[i]
    /\ \A f \in DOMAIN factStore[i] \ {"valid_to"} : factStore'[i][f] = factStore[i][f]
\* the step stores a fact for a pair that already has a fact with valid_to unset
CreatesOverOpen ==
    /\ Len(factStore') > Len(factStore)
    /\ OpenFacts(factStore'[Len(factStore')].subject,
                 factStore'[Len(factStore')].predicate) # {}

ComparedAtOneInstant ==
    /\ factOp.method = "compareFacts"
    /\ factOp.input.time1 = factOp.input.time2
    /\ factResult.success
ValidFacts(subject, t) ==
    {factStore[i] : i \in {j \in 1..Len(factStore) :
                              factStore[j].subject = subject /\ ValidAt(factStore[j], t)}}

\* C17: whatever the store holds, compareFacts(s, t, t) answered by the
\* backend returns empty added, removed and changed lists and, as unchanged,
\* each fact of s valid at t (valid_from <= t, valid_to unset or t < valid_to)
\* once, and nothing else.
C17_CompareWithItselfIsUnchanged ==
    ComparedAtOneInstant =>
        /\ Has(factResult, "added") /\ factResult.added = <<>>
        /\ Has(factResult, "removed") /\ factResult.removed = <<>>
        /\ Has(factResult, "changed") /\ factResult.changed = <<>>
        /\ Has(factResult, "unchanged")
        /\ {factResult.unchanged[i] : i \in 1..Len(factResult.unchanged)}
              = ValidFacts(factOp.input.subject, factOp.input.time1)
        /\ Len(factResult.unchanged)
              = Cardinality(ValidFacts(factOp.input.subject, factOp.input.time1))

\* the store holds a fact of the subject that is no longer valid at t and one
\* that is: compareFacts(s, t, t) has returned the second as unchanged
C17_Witness ==
    /\ ComparedAtOneInstant
    /\ Len(factResult.unchanged) = 1
    /\ \E i \in 1..Len(factStore) :
          /\ factStore[i].subject = factOp.input.subject
          /\ ~ValidAt(factStore[i], factOp.input.time1)

----------------------------------------------------------------------------
(* Claims about the choice of the backend *)

\* C25: however the calls of getMemoryClient and of the operations of
\* openMemoryClient follow one another in a process, the constructor of
\* OpenMemoryRESTClient runs at most once, not before the first call, and every
\* call uses the instance it made.
C25_OneClientBuiltLazily ==
    /\ constructed <= 1
    /\ constructed = 0 <=> clientInstance = "null"
    /\ clientInstance = "null" => opLog = <<>>
    /\ \A i \in 1..Len(opLog) :
          opLog[i].client = clientInstance /\ opLog[i].client = OpenMemoryRESTClient(1)

\* the plugin took the client at its start and two operations followed
C25_Witness ==
    /\ constructed = 1
    /\ Len(opLog) = 2
    /\ opLog[1].method # opLog[2].method
    /\ opLog[1].client = opLog[2].client
    /\ opLog[2].client = clientInstance

\* C8: the backend is chosen at each call: an operation issued while no
\* tool-call dispatcher is configured goes over the REST transport, and every
\* operation issued after setCaller goes over the tool-call transport, also when
\* a REST client was built and used before.
C8_BackendChosenPerCall ==
    \A i \in 1..Len(opLog) :
        opLog[i].transport = IF opLog[i].caller = "null" THEN "REST" ELSE "tool-call"

====